---- MODULE Spec2Model ----
(***************************************************************************)
(* A model of the tachograph decoder of src/tacho_lib/tacho_parser.py.     *)
(* The last part models the upload handler and the background thread of   *)
(* src/app.py.                                                             *)
(*                                                                         *)
(* Conventions.                                                            *)
(*  - A Python bytes object and a Python str are both modelled as a        *)
(*    sequence of character codes (0..255); the string "N/A" is NA.        *)
(*  - Offsets are the 0-based offsets of the source; At and Slice do the   *)
(*    translation to the 1-based sequences of TLA+.                        *)
(*  - TLC's integers are 32 bits wide, so an unsigned 32-bit value is kept *)
(*    as the pair <<high 16 bits, low 16 bits>>; every comparison and      *)
(*    division of the source on such a value is carried out on the pair.   *)
(*  - datetime.fromtimestamp is taken in a process whose local time zone   *)
(*    is UTC.                                                              *)
(*  - A dict is a record; a list is a sequence.  Messages of error markers *)
(*    are written without diacritics and without the exception text.       *)
(***************************************************************************)
EXTENDS Integers, Sequences, FiniteSets, TLC

(***************************************************************************)
(* Python built-ins used by the parser.                                    *)
(***************************************************************************)

\* the str "N/A"
NA == <<78, 47, 65>>

\* the value None of self.raw_data before the first call of parse
None == <<-1>>

Min2(a, b) == IF a <= b THEN a ELSE b

Max2(a, b) == IF a >= b THEN a ELSE b

\* data[i] for a 0-based index inside the buffer
At(data, i) == data[i + 1]

\* the index a slice bound i denotes in a buffer of length n
SliceIndex(i, n) == IF i < 0 THEN Max2(i + n, 0) ELSE Min2(i, n)

\* data[i:j]
Slice(data, i, j) ==
    LET lo == SliceIndex(i, Len(data))
        hi == SliceIndex(j, Len(data))
    IN  IF lo >= hi THEN <<>> ELSE SubSeq(data, lo + 1, hi)

\* whether pat occurs in data at 0-based offset i
MatchAt(data, pat, i) ==
    /\ i >= 0
    /\ i + Len(pat) <= Len(data)
    /\ \A k \in 1..Len(pat) : data[i + k] = pat[k]

\* the least element of a non-empty set of integers
Least(S) == CHOOSE i \in S : \A j \in S : i <= j

\* data.find(pat, start): the lowest offset >= start where pat occurs, or -1
find(data, pat, start) ==
    LET hits == {i \in start..(Len(data) - Len(pat)) : MatchAt(data, pat, i)}
    IN  IF hits = {} THEN -1 ELSE Least(hits)

\* pat in data
contains(data, pat) == find(data, pat, 0) # -1

\* bytes.lower(): ASCII upper-case letters to lower case
lower(data) ==
    [k \in 1..Len(data) |-> IF data[k] >= 65 /\ data[k] <= 90
                            THEN data[k] + 32 ELSE data[k]]

\* struct.unpack raises struct.error unless the slice has exactly n bytes
StructError(s, n) == Len(s) # n

\* struct.unpack('>H', s)[0]
unpack_H(s) == s[1] * 256 + s[2]

\* struct.unpack('>I', s)[0], as <<high 16 bits, low 16 bits>>
unpack_I(s) == <<s[1] * 256 + s[2], s[3] * 256 + s[4]>>

\* struct.unpack('<I', s)[0], as <<high 16 bits, low 16 bits>>
unpack_I_le(s) == <<s[4] * 256 + s[3], s[2] * 256 + s[1]>>

\* struct.unpack('>i', s)[0]: two's complement, within TLC's integers
unpack_i(s) ==
    (IF s[1] >= 128 THEN s[1] - 256 ELSE s[1]) * 16777216
        + s[2] * 65536 + s[3] * 256 + s[4]

\* a < b on 32-bit values kept as pairs
U32Less(a, b) == a[1] < b[1] \/ (a[1] = b[1] /\ a[2] < b[2])

\* a + b on pairs; the high part is not reduced, as a Python int is not
U32Add(a, b) ==
    <<a[1] + b[1] + ((a[2] + b[2]) \div 65536), (a[2] + b[2]) % 65536>>

\* the decimal digit d as a character
Digit(d) == 48 + d

\* n >= 0 in decimal, zero-padded to two and to four characters
Dec2(n) == <<Digit((n \div 10) % 10), Digit(n % 10)>>

Dec4(n) == <<Digit((n \div 1000) % 10), Digit((n \div 100) % 10),
             Digit((n \div 10) % 10), Digit(n % 10)>>

RECURSIVE Dec(_)
\* str(n) for n >= 0
Dec(n) ==
    IF n < 10 THEN <<Digit(n)>> ELSE Append(Dec(n \div 10), Digit(n % 10))

IsLeap(y) == (y % 4 = 0 /\ y % 100 # 0) \/ y % 400 = 0

DaysInMonth(y, m) ==
    IF m = 2 THEN (IF IsLeap(y) THEN 29 ELSE 28)
    ELSE IF m \in {4, 6, 9, 11} THEN 30 ELSE 31

\* datetime.datetime(y, m, d, H, M, S) raises ValueError outside these ranges
DatetimeError(y, m, d, H, M, S) ==
    ~ (/\ y >= 1 /\ y <= 9999
       /\ m >= 1 /\ m <= 12
       /\ d >= 1 /\ d <= DaysInMonth(y, m)
       /\ H >= 0 /\ H <= 23
       /\ M >= 0 /\ M <= 59
       /\ S >= 0 /\ S <= 59)

\* dt.strftime('%Y-%m-%d %H:%M:%S') of the datetime <<y, m, d, H, M, S>>
strftime(dt) ==
    Dec4(dt[1]) \o <<45>> \o Dec2(dt[2]) \o <<45>> \o Dec2(dt[3]) \o <<32>>
        \o Dec2(dt[4]) \o <<58>> \o Dec2(dt[5]) \o <<58>> \o Dec2(dt[6])

\* the civil date of a day number counted from 1970-01-01
CivilFromDays(days) ==
    LET z   == days + 719468
        era == z \div 146097
        doe == z - era * 146097
        yoe == (doe - doe \div 1460 + doe \div 36524 - doe \div 146096) \div 365
        doy == doe - (365 * yoe + yoe \div 4 - yoe \div 100)
        mp  == (5 * doy + 2) \div 153
        d   == doy - (153 * mp + 2) \div 5 + 1
        m   == IF mp < 10 THEN mp + 3 ELSE mp - 9
        y   == yoe + era * 400 + (IF m <= 2 THEN 1 ELSE 0)
    IN  <<y, m, d>>

\* datetime.datetime.fromtimestamp(ts) for ts = <<hi, lo>>, local time = UTC
fromtimestamp(ts) ==
    LET q128 == ts[1] * 512 + ts[2] \div 128
        days == q128 \div 675
        secs == (q128 % 675) * 128 + (ts[2] % 128)
        ymd  == CivilFromDays(days)
    IN  <<ymd[1], ymd[2], ymd[3], secs \div 3600, (secs \div 60) % 60, secs % 60>>

(***************************************************************************)
(* Primitive decoders.                                                     *)
(***************************************************************************)

_bcd_to_int(bcd_byte) == ((bcd_byte \div 16) * 10) + (bcd_byte % 16)

\* _parse_timestamp: a big-endian Unix time, zero rejected
_parse_timestamp(data) ==
    IF Len(data) >= 4
    THEN LET timestamp == unpack_I(Slice(data, 0, 4))
         IN  IF U32Less(<<0, 0>>, timestamp)
             THEN strftime(fromtimestamp(timestamp))
             ELSE NA
    ELSE NA

\* _parse_timestamp_bcd: four bytes YY MM DD and one hour/minute byte
_parse_timestamp_bcd(raw, offset) ==
    IF offset + 4 > Len(raw) THEN NA
    ELSE LET bcd_data == Slice(raw, offset, offset + 4)
             year   == 2000 + _bcd_to_int(bcd_data[1])
             month  == _bcd_to_int(bcd_data[2])
             day    == _bcd_to_int(bcd_data[3])
             hour   == _bcd_to_int(bcd_data[4] \div 16)
             minute == _bcd_to_int(bcd_data[4] % 16) * 10
         IN  IF ~ (1 <= month /\ month <= 12 /\ 1 <= day /\ day <= 31
                   /\ 0 <= hour /\ hour <= 23 /\ 0 <= minute /\ minute <= 59)
             THEN NA
             ELSE IF DatetimeError(year, month, day, hour, minute, 0)
             THEN NA     \* except: return "N/A"
             ELSE strftime(<<year, month, day, hour, minute, 0>>)

\* f"{v / 1000000.0:.6f}" for an integer v of micro-degrees
Fixed6(v) ==
    LET a    == IF v < 0 THEN -v ELSE v
        frac == a % 1000000
    IN  (IF v < 0 THEN <<45>> ELSE <<>>) \o Dec(a \div 1000000) \o <<46>>
            \o Dec2(frac \div 10000) \o Dec2((frac \div 100) % 100) \o Dec2(frac % 100)

\* _parse_location checking both values against the bound of the longitude
_parse_location_wide(raw, offset) ==
    IF offset + 8 > Len(raw) THEN NA
    ELSE LET lat_raw == unpack_i(Slice(raw, offset, offset + 4))
             lon_raw == unpack_i(Slice(raw, offset + 4, offset + 8))
         IN  IF -180000000 <= lat_raw /\ lat_raw <= 180000000
                /\ -180000000 <= lon_raw /\ lon_raw <= 180000000
             THEN Fixed6(lat_raw) \o <<44>> \o Fixed6(lon_raw)
             ELSE NA

\* _parse_location: two big-endian i32 of micro-degrees
_parse_location(raw, offset) ==
    IF offset + 8 > Len(raw) THEN NA
    ELSE LET lat_raw == unpack_i(Slice(raw, offset, offset + 4))
             lon_raw == unpack_i(Slice(raw, offset + 4, offset + 8))
         IN  IF -90000000 <= lat_raw /\ lat_raw <= 90000000
                /\ -180000000 <= lon_raw /\ lon_raw <= 180000000
             THEN Fixed6(lat_raw) \o <<44>> \o Fixed6(lon_raw)
             ELSE NA

RECURSIVE StripNul(_)
\* s.strip('\x00')
StripNul(s) ==
    IF s = <<>> THEN s
    ELSE IF Head(s) = 0 THEN StripNul(Tail(s))
    ELSE IF s[Len(s)] = 0 THEN StripNul(SubSeq(s, 1, Len(s) - 1))
    ELSE s

\* _extract_string: a fixed-length Latin-1 field without its NUL padding
_extract_string(raw, offset, length) ==
    IF offset + length > Len(raw) THEN NA
    ELSE StripNul(Slice(raw, offset, offset + length))

\* bytes.decode('ascii', errors='ignore'): the bytes above 127 are dropped
decode_ascii_ignore(s) == SelectSeq(s, LAMBDA c : c < 128)

\* the lower-case hexadecimal digit of a nibble
HexDigit(n) == IF n < 10 THEN 48 + n ELSE 87 + n

RECURSIVE hex(_)
\* bytes.hex()
hex(s) ==
    IF s = <<>> THEN <<>>
    ELSE <<HexDigit(Head(s) \div 16), HexDigit(Head(s) % 16)>> \o hex(Tail(s))

(***************************************************************************)
(* The outcome of a call: a returned value, or an exception that escapes.  *)
(***************************************************************************)

Return(v) == [exc |-> FALSE, val |-> v]

Raise(e) == [exc |-> TRUE, val |-> e]

(***************************************************************************)
(* The Standard EU decoder.  Every method reads the buffer self.raw_data,  *)
(* passed here as raw.                                                     *)
(***************************************************************************)

ACTIVITY_TYPES ==
    [c \in {0, 1, 2, 3, 255} |->
        CASE c = 0 -> "break"
          [] c = 1 -> "available"
          [] c = 2 -> "work"
          [] c = 3 -> "driving"
          [] c = 255 -> "unknown"]

\* ACTIVITY_TYPES.get(code, 'unknown')
\* ACTIVITY_TYPES.get(code, 'invalid'): a lookup whose default is not a
\* member of the enumeration
ActivityTypeOfOpen(code) ==
    IF code \in DOMAIN ACTIVITY_TYPES THEN ACTIVITY_TYPES[code] ELSE "invalid"

ActivityTypeOf(code) ==
    IF code \in DOMAIN ACTIVITY_TYPES THEN ACTIVITY_TYPES[code] ELSE "unknown"

\* _find_section: bytes.find, which answers -1 when the tag does not occur
_find_section(raw, tag) == find(raw, tag, 0)

\* Python's truth value of an int: 'not section' holds for 0 only
Falsy(n) == n = 0

\* the dict built by _parse_header once the length check has passed
HeaderFields(raw) ==
    [file_type     |-> decode_ascii_ignore(Slice(raw, 0, 4)),
     version       |-> IF Len(raw) >= 6 THEN unpack_H(Slice(raw, 4, 6)) ELSE 0,
     creation_time |-> IF Len(raw) >= 10
                       THEN _parse_timestamp(Slice(raw, 6, 10)) ELSE NA,
     data_length   |-> IF Len(raw) >= 14
                       THEN unpack_I(Slice(raw, 10, 14)) ELSE <<0, 0>>,
     signature     |-> IF Len(raw) >= 20 THEN hex(Slice(raw, 14, 20)) ELSE <<>>]

\* whether a struct.unpack of the header dict raises
HeaderRaises(raw) ==
    \/ Len(raw) >= 6 /\ StructError(Slice(raw, 4, 6), 2)
    \/ Len(raw) >= 14 /\ StructError(Slice(raw, 10, 14), 4)

\* _parse_header without its length check and without its handler: the
\* fields are unpacked whatever the length, and struct.error leaves the
\* method
_parse_header_unguarded(raw) ==
    IF StructError(Slice(raw, 4, 6), 2) \/ StructError(Slice(raw, 10, 14), 4)
    THEN Raise("struct.error")
    ELSE Return(HeaderFields(raw))

_parse_header(raw) ==
    IF Len(raw) < 20 THEN Return([error |-> "Plik zbyt krotki"])
    ELSE IF HeaderRaises(raw)
    THEN Return([error |-> "Blad parsowania naglowka"])
    ELSE Return(HeaderFields(raw))

_parse_card_data(raw) ==
    LET card_section == _find_section(raw, <<5, 1>>)
        offset == card_section
    IN  IF Falsy(card_section)
        THEN Return([error |-> "Nie znaleziono danych karty"])
        ELSE IF offset + 78 > Len(raw)
        THEN Return([error |-> "Niepelne dane karty"])
        ELSE Return(
            [driver_name       |-> _extract_string(raw, offset + 4, 36),
             license_number    |-> _extract_string(raw, offset + 40, 16),
             card_number       |-> _extract_string(raw, offset + 56, 18),
             card_expiry       |-> IF offset + 74 + 4 <= Len(raw)
                                   THEN _parse_timestamp_bcd(raw, offset + 74)
                                   ELSE NA,
             issuing_authority |-> IF offset + 78 + 36 <= Len(raw)
                                   THEN _extract_string(raw, offset + 78, 36)
                                   ELSE NA])

\* whether a struct.unpack of the vehicle dict raises
VehicleRaises(raw, offset) ==
    \/ offset + 39 <= Len(raw) /\ StructError(Slice(raw, offset + 35, offset + 39), 4)
    \/ offset + 43 <= Len(raw) /\ StructError(Slice(raw, offset + 39, offset + 43), 4)
    \/ offset + 45 <= Len(raw) /\ StructError(Slice(raw, offset + 43, offset + 45), 2)

_parse_vehicle_data(raw) ==
    LET vehicle_section == _find_section(raw, <<5, 5>>)
        offset == vehicle_section
    IN  IF Falsy(vehicle_section)
        THEN Return([error |-> "Nie znaleziono danych pojazdu"])
        ELSE IF offset + 45 > Len(raw)
        THEN Return([error |-> "Niepelne dane pojazdu"])
        ELSE IF VehicleRaises(raw, offset)
        THEN Return([error |-> "Blad parsowania danych pojazdu"])
        ELSE Return(
            [registration   |-> _extract_string(raw, offset + 4, 14),
             vin            |-> _extract_string(raw, offset + 18, 17),
             odometer_start |-> IF offset + 39 <= Len(raw)
                                THEN unpack_I(Slice(raw, offset + 35, offset + 39))
                                ELSE <<0, 0>>,
             odometer_end   |-> IF offset + 43 <= Len(raw)
                                THEN unpack_I(Slice(raw, offset + 39, offset + 43))
                                ELSE <<0, 0>>,
             speed_limit    |-> IF offset + 45 <= Len(raw)
                                THEN unpack_H(Slice(raw, offset + 43, offset + 45))
                                ELSE 0])

\* the dict of the activity record at offset, its duration read with the
\* low byte first: struct.unpack('<H', ...)
ActivityRecordLittleEndian(raw, offset) ==
    [start_time    |-> _parse_timestamp_bcd(raw, offset),
     activity_type |-> ActivityTypeOf(IF offset + 4 < Len(raw)
                                      THEN At(raw, offset + 4) ELSE 255),
     duration      |-> IF offset + 7 <= Len(raw)
                       THEN At(raw, offset + 6) * 256 + At(raw, offset + 5) ELSE 0,
     location      |-> IF offset + 15 <= Len(raw)
                       THEN _parse_location(raw, offset + 7) ELSE NA]

\* the dict of the activity record at offset
ActivityRecord(raw, offset) ==
    [start_time    |-> _parse_timestamp_bcd(raw, offset),
     activity_type |-> ActivityTypeOf(IF offset + 4 < Len(raw)
                                      THEN At(raw, offset + 4) ELSE 255),
     duration      |-> IF offset + 7 <= Len(raw)
                       THEN unpack_H(Slice(raw, offset + 5, offset + 7)) ELSE 0,
     location      |-> IF offset + 15 <= Len(raw)
                       THEN _parse_location(raw, offset + 7) ELSE NA]

\* whether decoding the record at offset raises
ActivityRaises(raw, offset) ==
    offset + 7 <= Len(raw) /\ StructError(Slice(raw, offset + 5, offset + 7), 2)

RECURSIVE ActivityLoop(_, _, _, _, _)
\* the loop 'for i in range(min(record_count, 1000))' from iteration i on
ActivityLoop(raw, offset, i, n, activities) ==
    IF i >= n THEN activities
    ELSE IF offset + 8 > Len(raw) THEN activities
    ELSE IF ActivityRaises(raw, offset)
    THEN Append(activities, [error |-> "Blad parsowania aktywnosci"])
    ELSE ActivityLoop(raw, offset + 8, i + 1, n,
                      Append(activities, ActivityRecord(raw, offset)))

\* _parse_activities without the check of the length before the count and
\* without its try/except: the struct.error of a cut count leaves the method
_parse_activities_unguarded(raw) ==
    LET activity_section == _find_section(raw, <<5, 2>>)
        offset == activity_section + 4
    IN  IF Falsy(activity_section)
        THEN Return(<<[error |-> "Nie znaleziono danych aktywnosci"]>>)
        ELSE IF StructError(Slice(raw, offset, offset + 2), 2)
        THEN Raise("struct.error")
        ELSE Return(ActivityLoop(raw, offset + 2, 0,
                                 Min2(unpack_H(Slice(raw, offset, offset + 2)), 1000),
                                 <<>>))

_parse_activities(raw) ==
    LET activity_section == _find_section(raw, <<5, 2>>)
        offset == activity_section + 4
    IN  IF Falsy(activity_section)
        THEN Return(<<[error |-> "Nie znaleziono danych aktywnosci"]>>)
        ELSE IF offset + 2 > Len(raw)
        THEN Return(<<[error |-> "Niepelne dane aktywnosci"]>>)
        ELSE IF StructError(Slice(raw, offset, offset + 2), 2)
        THEN Return(<<[error |-> "Blad parsowania aktywnosci"]>>)
        ELSE LET record_count == unpack_H(Slice(raw, offset, offset + 2))
             IN  Return(ActivityLoop(raw, offset + 2, 0,
                                     Min2(record_count, 1000), <<>>))

_parse_events(raw) ==
    LET events_section == _find_section(raw, <<5, 3>>)
    IN  IF Falsy(events_section)
        THEN Return(<<[info |-> "Brak zdarzen"]>>)
        ELSE Return(<<>>)

_parse_speeds(raw) ==
    LET speed_section == _find_section(raw, <<5, 4>>)
    IN  IF Falsy(speed_section)
        THEN Return(<<[info |-> "Brak danych predkosci"]>>)
        ELSE Return(<<>>)

(***************************************************************************)
(* The format detector.  Nothing in its body raises, so its handler, which *)
(* answers 'Unknown', is never entered.                                    *)
(***************************************************************************)

\* smart_v2_markers, in the order of the source
smart_v2_markers ==
    << <<115, 109, 97, 114, 116, 95, 116, 97, 99, 104, 111, 95, 118, 50>>,   \* smart_tacho_v2
       <<118, 100, 111, 95, 115, 109, 97, 114, 116>>,   \* vdo_smart
       <<115, 116, 118, 50>>,   \* stv2
       <<115, 109, 97, 114, 116, 32, 116, 97, 99, 104, 111>>,   \* smart tacho
       <<116, 97, 99, 104, 111, 32, 115, 109, 97, 114, 116>>,   \* tacho smart
       <<115, 109, 97, 114, 116, 116, 97, 99, 104, 111>>,   \* smarttacho
       <<99, 111, 110, 116, 105, 110, 101, 110, 116, 97, 108, 32, 118, 100, 111>>,   \* continental vdo
       <<107, 105, 101, 110, 122, 108, 101>>,   \* kienzle
       <<115, 116, 111, 110, 101, 114, 105, 100, 103, 101, 32, 115, 101, 53, 48, 48, 48>> >>   \* stoneridge se5000

\* the statements of the try block, for a buffer of bytes
DetectRules(raw_data) ==
    LET head1000 == lower(Slice(raw_data, 0, 1000))
        head500  == Slice(raw_data, 0, 500)
        header_bytes == Slice(raw_data, 0, 20)
    IN  IF \E k \in 1..Len(smart_v2_markers) :
                contains(head1000, smart_v2_markers[k])
        THEN "Smart Tacho V2"
        ELSE IF contains(head500, <<86, 68, 79>>)  \* VDO
                /\ contains(head500, <<83, 109, 97, 114, 116>>)  \* Smart
        THEN "Smart Tacho V2"
        ELSE IF Len(raw_data) > 100
                /\ (\/ Slice(header_bytes, 0, 4) = <<83, 84, 118, 50>>  \* STv2
                    \/ Slice(header_bytes, 0, 3) = <<86, 68, 79>>  \* VDO
                    \/ contains(header_bytes, <<83, 77, 65, 82, 84>>))  \* SMART
        THEN "Smart Tacho V2"
        ELSE IF Slice(raw_data, 0, 4) = <<68, 68, 68, 0>>  \* DDD\0
                \/ Slice(raw_data, 0, 3) = <<68, 68, 68>>  \* DDD
        THEN "Standard EU"
        ELSE IF contains(Slice(raw_data, 0, 100), <<69, 70, 65, 83>>)  \* EFAS
        THEN "EFAS"
        ELSE IF contains(Slice(raw_data, 0, 200),
                         <<83, 116, 111, 110, 101, 114, 105, 100, 103, 101>>)  \* Stoneridge
        THEN "Stoneridge"
        ELSE IF contains(Slice(raw_data, 0, 200),
                         <<83, 105, 101, 109, 101, 110, 115, 32, 86, 68, 79>>)  \* Siemens VDO
        THEN "Siemens VDO"
        ELSE "Unknown"

\* the try block: raw_data[:2000] raises TypeError when raw_data is no buffer
DetectBody(raw_data) ==
    IF raw_data = None THEN Raise("TypeError") ELSE Return(DetectRules(raw_data))

\* detect_tacho_version without its try/except: the exception leaves the
\* method
detect_tacho_version_unguarded(raw_data) == DetectBody(raw_data).val

\* 'except Exception as e: ... return Unknown'
DetectOutcome(out) == IF out.exc THEN "Unknown" ELSE out.val

detect_tacho_version(raw_data) == DetectOutcome(DetectBody(raw_data))

(***************************************************************************)
(* The Smart Tacho V2 decoder: timestamps, activities, events, speeds.     *)
(***************************************************************************)

\* 946684800, the Unix time of 2000-01-01 00:00:00 UTC
Epoch2000 == <<14445, 17280>>

\* 2147483647
Int32Max == <<32767, 65535>>

\* _parse_v2_timestamp with the little-endian reading tried first
_parse_v2_timestamp_le_first(data) ==
    IF Len(data) >= 4
    THEN LET be  == unpack_I(Slice(data, 0, 4))
             off == U32Add(be, Epoch2000)
             le  == unpack_I_le(Slice(data, 0, 4))
         IN  IF U32Less(Epoch2000, le) /\ U32Less(le, Int32Max)
             THEN strftime(fromtimestamp(le))
             ELSE IF U32Less(Epoch2000, be)
             THEN strftime(fromtimestamp(be))
             ELSE IF U32Less(off, Int32Max)
             THEN strftime(fromtimestamp(off))
             ELSE NA
    ELSE NA

\* _parse_v2_timestamp with the first reading limited to 2147483647, as the
\* third one is
_parse_v2_timestamp_a_limited(data) ==
    IF Len(data) >= 4
    THEN LET be  == unpack_I(Slice(data, 0, 4))
             off == U32Add(be, Epoch2000)
             le  == unpack_I_le(Slice(data, 0, 4))
         IN  IF U32Less(Epoch2000, be) /\ U32Less(be, Int32Max)
             THEN strftime(fromtimestamp(be))
             ELSE IF U32Less(off, Int32Max)
             THEN strftime(fromtimestamp(off))
             ELSE IF U32Less(Epoch2000, le) /\ U32Less(le, Int32Max)
             THEN strftime(fromtimestamp(le))
             ELSE NA
    ELSE NA

\* _parse_v2_timestamp: three readings of four bytes, the first accepted wins
_parse_v2_timestamp(data) ==
    IF Len(data) >= 4
    THEN LET be  == unpack_I(Slice(data, 0, 4))
             off == U32Add(be, Epoch2000)
             le  == unpack_I_le(Slice(data, 0, 4))
         IN  IF U32Less(Epoch2000, be)
             THEN strftime(fromtimestamp(be))
             ELSE IF U32Less(off, Int32Max)
             THEN strftime(fromtimestamp(off))
             ELSE IF U32Less(Epoch2000, le) /\ U32Less(le, Int32Max)
             THEN strftime(fromtimestamp(le))
             ELSE NA
    ELSE NA

SMART_V2_ACTIVITY_TYPES ==
    [c \in {16, 32, 48, 64, 80, 255} |->
        CASE c = 16 -> "driving"
          [] c = 32 -> "work"
          [] c = 48 -> "available"
          [] c = 64 -> "break"
          [] c = 80 -> "rest"
          [] c = 255 -> "unknown"]

_decode_v2_activity_type(activity_byte) ==
    IF activity_byte \in DOMAIN SMART_V2_ACTIVITY_TYPES
    THEN SMART_V2_ACTIVITY_TYPES[activity_byte] ELSE "unknown"

\* the value None where a dict is expected
NoneDict == [none |-> TRUE]

\* the str 'calculated'
Calculated == <<99, 97, 108, 99, 117, 108, 97, 116, 101, 100>>

\* the pattern b'ACT:'
ACT == <<65, 67, 84, 58>>

_parse_single_v2_activity(block, pattern) ==
    LET offset == Len(pattern)
    IN  IF Len(block) < offset + 16 THEN NoneDict
        ELSE IF pattern = ACT
        THEN IF offset + 11 <= Len(block)
                /\ StructError(Slice(block, offset + 9, offset + 11), 2)
             THEN NoneDict     \* except: return None
             ELSE [start_time    |-> _parse_v2_timestamp(Slice(block, offset, offset + 4)),
                   end_time      |-> _parse_v2_timestamp(Slice(block, offset + 4, offset + 8)),
                   activity_type |-> _decode_v2_activity_type(
                                         IF offset + 8 < Len(block)
                                         THEN At(block, offset + 8) ELSE 255),
                   duration      |-> IF offset + 11 <= Len(block)
                                     THEN unpack_H(Slice(block, offset + 9, offset + 11))
                                     ELSE 0]
        ELSE IF offset + 7 <= Len(block)
                /\ StructError(Slice(block, offset + 5, offset + 7), 2)
             THEN NoneDict     \* except: return None
             ELSE [start_time    |-> _parse_v2_timestamp(Slice(block, offset, offset + 4)),
                   activity_type |-> _decode_v2_activity_type(
                                         IF offset + 4 < Len(block)
                                         THEN At(block, offset + 4) ELSE 255),
                   duration      |-> IF offset + 7 <= Len(block)
                                     THEN unpack_H(Slice(block, offset + 5, offset + 7))
                                     ELSE 60,
                   end_time      |-> Calculated]

\* activities.append(activity) under 'if activity and "error" not in activity'
KeepActivity(activities, activity) ==
    IF activity # NoneDict /\ "error" \notin DOMAIN activity
    THEN Append(activities, activity) ELSE activities

RECURSIVE PatternLoop(_, _, _, _)
\* the body of the 'while True' loop of _parse_activities_by_pattern once
\* raw_data.find has answered at
PatternFound(raw_data, pattern, at, block_size, activities) ==
    IF at = -1 THEN activities
    ELSE PatternLoop(raw_data, pattern, at + block_size,
             IF at + block_size < Len(raw_data)
             THEN KeepActivity(activities,
                      _parse_single_v2_activity(
                          Slice(raw_data, at, at + block_size), pattern))
             ELSE activities)

\* the 'while True' loop of _parse_activities_by_pattern, searching from pos
PatternLoop(raw_data, pattern, pos, activities) ==
    PatternFound(raw_data, pattern, find(raw_data, pattern, pos),
                 IF pattern = ACT THEN 50 ELSE 60, activities)

_parse_activities_by_pattern(raw_data, pattern) ==
    PatternLoop(raw_data, pattern, 0, <<>>)

\* the activity codes the binary heuristic looks for
V2Codes == {16, 32, 48, 64, 80}

_looks_like_v2_activity_block(block) ==
    IF Len(block) < 16 THEN FALSE
    ELSE \/ block[1] \in V2Codes
         \/ \E pos \in {4, 8} : pos < Len(block) /\ At(block, pos) \in V2Codes

\* layouts: <<activity_type_pos, timestamp_pos, duration_pos>>
layouts == << <<0, 1, 5>>, <<4, 0, 8>>, <<8, 0, 12>> >>

\* whether layout k gives a plausible activity for the block
LayoutAccepts(block, k) ==
    LET atp == layouts[k][1]
        tp  == layouts[k][2]
        dp  == layouts[k][3]
    IN  /\ atp < Len(block) /\ tp + 4 <= Len(block) /\ dp + 2 <= Len(block)
        /\ _decode_v2_activity_type(At(block, atp)) # "unknown"
        /\ _parse_v2_timestamp(Slice(block, tp, tp + 4)) # NA
        /\ 0 < unpack_H(Slice(block, dp, dp + 2))
        /\ unpack_H(Slice(block, dp, dp + 2)) < 1440

\* the first layout, in the order of the source, that accepts the block
FirstLayout(block) ==
    CHOOSE j \in 1..Len(layouts) :
        /\ LayoutAccepts(block, j)
        /\ \A i \in 1..(j - 1) : ~ LayoutAccepts(block, i)

\* the dict returned for the block read with layout k
LayoutActivity(block, k) ==
    [start_time    |-> _parse_v2_timestamp(
                           Slice(block, layouts[k][2], layouts[k][2] + 4)),
     activity_type |-> _decode_v2_activity_type(At(block, layouts[k][1])),
     duration      |-> unpack_H(Slice(block, layouts[k][3], layouts[k][3] + 2)),
     end_time      |-> Calculated]

_parse_binary_activity_block(block) ==
    IF \E k \in 1..Len(layouts) : LayoutAccepts(block, k)
    THEN LayoutActivity(block, FirstLayout(block))
    ELSE NoneDict

\* the body of the loop of _parse_v2_binary_activities for one block: the
\* activity found in it, or None
BinaryBlock(block) ==
    IF _looks_like_v2_activity_block(block)
    THEN _parse_binary_activity_block(block) ELSE NoneDict

\* activities.append(activity) under 'if activity:'
AppendActivity(activities, activity) ==
    IF activity # NoneDict THEN Append(activities, activity) ELSE activities

RECURSIVE BinaryLoop(_, _, _, _)
RECURSIVE BinaryNext(_, _, _, _)
\* 'if len(activities) >= 30: break', else the next block
BinaryNext(raw_data, i, stop, activities) ==
    IF Len(activities) >= 30 THEN activities
    ELSE BinaryLoop(raw_data, i + 16, stop, activities)

\* 'for i in range(0, stop, 16)' of _parse_v2_binary_activities from i on
BinaryLoop(raw_data, i, stop, activities) ==
    IF i >= stop THEN activities
    ELSE BinaryNext(raw_data, i, stop,
             AppendActivity(activities, BinaryBlock(Slice(raw_data, i, i + 16))))

_parse_v2_binary_activities(raw_data) ==
    BinaryLoop(raw_data, 0, Min2(Len(raw_data) - 16, 5000), <<>>)

\* _validate_v2_activity without its test of the activity type
_validate_v2_activity_any_type(activity) ==
    IF "start_time" \notin DOMAIN activity \/ activity.start_time = NA
    THEN FALSE
    ELSE IF "duration" \in DOMAIN activity
            /\ (activity.duration <= 0 \/ activity.duration > 1440)
    THEN FALSE
    ELSE TRUE

_validate_v2_activity(activity) ==
    IF "activity_type" \notin DOMAIN activity \/ activity.activity_type = "unknown"
    THEN FALSE
    ELSE IF "start_time" \notin DOMAIN activity \/ activity.start_time = NA
    THEN FALSE
    ELSE IF "duration" \in DOMAIN activity
            /\ (activity.duration <= 0 \/ activity.duration > 1440)
    THEN FALSE
    ELSE TRUE

\* activity_patterns, in the order of the source
activity_patterns ==
    << ACT,
       <<65, 67, 84, 73, 86, 73, 84, 89, 58>>,   \* ACTIVITY:
       <<65, 67, 84, 86, 58>>,   \* ACTV:
       <<65, 58>> >>   \* A:

RECURSIVE FirstPattern(_, _)
\* 'if activities_from_pattern: ... break', else the next pattern
PatternResult(raw_data, k, activities_from_pattern) ==
    IF activities_from_pattern # <<>> THEN activities_from_pattern
    ELSE FirstPattern(raw_data, k + 1)

\* the result of the first pattern, from the k-th on, that gives activities
FirstPattern(raw_data, k) ==
    IF k > Len(activity_patterns) THEN <<>>
    ELSE PatternResult(raw_data, k,
             _parse_activities_by_pattern(raw_data, activity_patterns[k]))

\* 'if not activities: activities = self._parse_v2_binary_activities(raw_data)'
OrBinary(raw_data, activities) ==
    IF activities = <<>> THEN _parse_v2_binary_activities(raw_data)
    ELSE activities

_parse_v2_activities(raw_data) ==
    Return(SelectSeq(Slice(OrBinary(raw_data, FirstPattern(raw_data, 1)), 0, 50),
                     _validate_v2_activity))

_decode_v2_event_type(event_byte) ==
    CASE event_byte = 1 -> "speed_violation"
      [] event_byte = 2 -> "driving_time_violation"
      [] event_byte = 3 -> "card_inserted"
      [] event_byte = 4 -> "card_removed"
      [] event_byte = 5 -> "power_supply_interruption"
      [] event_byte = 6 -> "motion_sensor_fault"
      [] event_byte = 7 -> "calibration_error"
      [] event_byte = 8 -> "data_corruption"
      [] OTHER -> "unknown"

\* the description: the base text, followed by the code when it is not 0
_get_v2_event_description(event_type, event_code) ==
    LET base_desc ==
            CASE event_type = 1 -> "Przekroczenie predkosci"
              [] event_type = 2 -> "Przekroczenie czasu jazdy"
              [] event_type = 3 -> "Wlozenie karty kierowcy"
              [] event_type = 4 -> "Wyjecie karty kierowcy"
              [] event_type = 5 -> "Przerwa w zasilaniu"
              [] event_type = 6 -> "Blad sensora ruchu"
              [] event_type = 7 -> "Blad kalibracji"
              [] event_type = 8 -> "Uszkodzenie danych"
              [] OTHER -> "Nieznane zdarzenie"
    IN  IF event_code # 0 THEN [base |-> base_desc, kod |-> event_code]
        ELSE [base |-> base_desc]

\* the event dict of a 30-byte block
EventOf(event_block, pattern) ==
    LET n == Len(pattern)
        type_byte == IF n + 4 < Len(event_block) THEN At(event_block, n + 4) ELSE 255
        code_byte == IF n + 5 < Len(event_block) THEN At(event_block, n + 5) ELSE 0
    IN  [timestamp   |-> _parse_v2_timestamp(Slice(event_block, n, n + 4)),
         event_type  |-> _decode_v2_event_type(type_byte),
         event_code  |-> code_byte,
         description |-> _get_v2_event_description(type_byte, code_byte)]

\* events.append(event) under "if event['timestamp'] != 'N/A'"
KeepEvent(events, event) ==
    IF event.timestamp # NA THEN Append(events, event) ELSE events

RECURSIVE EventLoop(_, _, _, _)
\* the body of the 'while True' loop of _parse_v2_events once raw_data.find
\* has answered at
EventFound(raw_data, pattern, at, events) ==
    IF at = -1 THEN events
    ELSE EventLoop(raw_data, pattern, at + 30,
             IF at + 30 < Len(raw_data)
             THEN KeepEvent(events, EventOf(Slice(raw_data, at, at + 30), pattern))
             ELSE events)

\* the 'while True' loop of _parse_v2_events for one pattern, from pos
EventLoop(raw_data, pattern, pos, events) ==
    EventFound(raw_data, pattern, find(raw_data, pattern, pos), events)

\* event_patterns, in the order of the source
event_patterns ==
    << <<69, 86, 84, 58>>,   \* EVT:
       <<69, 86, 69, 78, 84, 58>>,   \* EVENT:
       <<69, 58>> >>   \* E:

RECURSIVE EventPatterns(_, _)
\* 'if events: break', else the next pattern
EventResult(raw_data, k, events) ==
    IF events # <<>> THEN events ELSE EventPatterns(raw_data, k + 1)

\* 'for pattern in event_patterns' from the k-th pattern on
EventPatterns(raw_data, k) ==
    IF k > Len(event_patterns) THEN <<>>
    ELSE EventResult(raw_data, k, EventLoop(raw_data, event_patterns[k], 0, <<>>))

_parse_v2_events(raw_data) == Return(Slice(EventPatterns(raw_data, 1), 0, 30))

\* the speed dict of a 20-byte block
SpeedOf(speed_block, offset) ==
    [timestamp |-> _parse_v2_timestamp(Slice(speed_block, offset, offset + 4)),
     speed_kmh |-> IF offset + 6 <= Len(speed_block)
                   THEN unpack_H(Slice(speed_block, offset + 4, offset + 6)) ELSE 0,
     rpm       |-> IF offset + 8 <= Len(speed_block)
                   THEN unpack_H(Slice(speed_block, offset + 6, offset + 8)) ELSE 0]

\* speeds.append(speed_entry) under the timestamp check alone
KeepSpeedOfAny(speeds, speed_entry) ==
    IF speed_entry.timestamp # NA THEN Append(speeds, speed_entry) ELSE speeds

\* speeds.append(speed_entry) under the timestamp and speed checks
KeepSpeed(speeds, speed_entry) ==
    IF speed_entry.timestamp # NA /\ speed_entry.speed_kmh < 200
    THEN Append(speeds, speed_entry) ELSE speeds

\* the body of 'if pos + 20 < len(raw_data)' for the block at pos
SpeedBlock(speed_block, offset, speeds) ==
    IF offset + 8 <= Len(speed_block)
    THEN KeepSpeed(speeds, SpeedOf(speed_block, offset)) ELSE speeds

RECURSIVE SpeedLoop(_, _, _, _)
\* the body of the 'while True' loop of _parse_v2_speeds once raw_data.find
\* has answered at
SpeedFound(raw_data, pattern, at, speeds) ==
    IF at = -1 THEN speeds
    ELSE SpeedLoop(raw_data, pattern, at + 20,
             IF at + 20 < Len(raw_data)
             THEN SpeedBlock(Slice(raw_data, at, at + 20), Len(pattern), speeds)
             ELSE speeds)

\* the 'while True' loop of _parse_v2_speeds for one pattern, from pos
SpeedLoop(raw_data, pattern, pos, speeds) ==
    SpeedFound(raw_data, pattern, find(raw_data, pattern, pos), speeds)

\* speed_patterns, in the order of the source
speed_patterns ==
    << <<83, 80, 68, 58>>,   \* SPD:
       <<83, 80, 69, 69, 68, 58>>,   \* SPEED:
       <<86, 69, 76, 58>> >>   \* VEL:

RECURSIVE SpeedPatterns(_, _)
\* 'if speeds: break', else the next pattern
SpeedResult(raw_data, k, speeds) ==
    IF speeds # <<>> THEN speeds ELSE SpeedPatterns(raw_data, k + 1)

\* 'for pattern in speed_patterns' from the k-th pattern on
SpeedPatterns(raw_data, k) ==
    IF k > Len(speed_patterns) THEN <<>>
    ELSE SpeedResult(raw_data, k, SpeedLoop(raw_data, speed_patterns[k], 0, <<>>))

_parse_v2_speeds(raw_data) == Return(Slice(SpeedPatterns(raw_data, 1), 0, 100))

(***************************************************************************)
(* Regular expressions of the Smart Tacho V2 decoder.  Each pattern of the *)
(* source is a literal followed by one group; re.search answers the        *)
(* leftmost match, its quantifiers greedy.                                 *)
(***************************************************************************)

Digits == 48..57

\* [A-Z0-9]
UpperAlnum == (65..90) \cup Digits

\* [A-Z0-9] under re.IGNORECASE
Alnum == UpperAlnum \cup (97..122)

\* \s of a bytes pattern
Space == {9, 10, 11, 12, 13, 32}

\* [A-Z...\s] of the driver name under re.IGNORECASE; the Polish letters of
\* the source's literal are taken as the bytes of their UTF-8 encoding
NameClass ==
    (65..90) \cup (97..122) \cup Space
        \cup {195, 196, 197, 129, 131, 132, 134, 147, 152, 154, 185, 187}

\* [A-HJ-NPR-Z0-9]
VinClass == ((65..90) \ {73, 79, 81}) \cup Digits

\* [A-Z0-9\s\-]
RegClass == UpperAlnum \cup Space \cup {45}

RECURSIVE RunLen(_, _, _, _)
\* how many bytes from pos on lie in cls, counting at most max
RunLen(data, pos, cls, max) ==
    IF max = 0 \/ pos >= Len(data) \/ At(data, pos) \notin cls THEN 0
    ELSE 1 + RunLen(data, pos + 1, cls, max - 1)

RECURSIVE SearchFrom(_, _, _, _, _, _, _)
\* re.search(lit + '([cls]{lo,hi})', data) from start on: group 1, or <<>>
SearchFrom(data, hay, lit, cls, lo, hi, start) ==
    LET p == find(hay, lit, start)
        run == RunLen(data, p + Len(lit), cls, hi)
    IN  IF p = -1 THEN <<>>
        ELSE IF run >= lo
        THEN Slice(data, p + Len(lit), p + Len(lit) + run)
        ELSE SearchFrom(data, hay, lit, cls, lo, hi, p + 1)

\* re.search of one pattern; icase is re.IGNORECASE
Search(data, lit, cls, lo, hi, icase) ==
    IF icase THEN SearchFrom(data, lower(data), lower(lit), cls, lo, hi, 0)
    ELSE SearchFrom(data, data, lit, cls, lo, hi, 0)

RECURSIVE FirstSearch(_, _, _, _)
\* group 1 of the first pattern of pats, from the k-th on, that matches; a
\* pattern is <<literal, class, lo, hi>>
FirstSearch(data, pats, icase, k) ==
    IF k > Len(pats) THEN <<>>
    ELSE LET g == Search(data, pats[k][1], pats[k][2], pats[k][3], pats[k][4], icase)
         IN  IF g # <<>> THEN g ELSE FirstSearch(data, pats, icase, k + 1)

\* the length of a match of [0-9]{1,2}\.[0-9]{1,2}\.[0-9]{1,2} at pos, or 0
VersionAt(data, pos) ==
    LET r1 == RunLen(data, pos, Digits, 3)
        p2 == pos + r1 + 1
        r2 == RunLen(data, p2, Digits, 3)
        p3 == p2 + r2 + 1
        r3 == RunLen(data, p3, Digits, 2)
    IN  IF /\ r1 \in {1, 2} /\ pos + r1 < Len(data) /\ At(data, pos + r1) = 46
           /\ r2 \in {1, 2} /\ p2 + r2 < Len(data) /\ At(data, p2 + r2) = 46
           /\ r3 >= 1
        THEN r1 + 1 + r2 + 1 + r3 ELSE 0

RECURSIVE SearchVersion(_, _, _)
\* re.search(lit + '(version)', data) from start on: group 1, or <<>>
SearchVersion(data, lit, start) ==
    LET p == find(data, lit, start)
        n == VersionAt(data, p + Len(lit))
    IN  IF p = -1 THEN <<>>
        ELSE IF n > 0 THEN Slice(data, p + Len(lit), p + Len(lit) + n)
        ELSE SearchVersion(data, lit, p + 1)

\* whether a template (0: a digit, otherwise the byte itself) matches at pos
TemplateAt(data, tpl, pos) ==
    /\ pos + Len(tpl) <= Len(data)
    /\ \A k \in 1..Len(tpl) :
          IF tpl[k] = 0 THEN data[pos + k] \in Digits ELSE data[pos + k] = tpl[k]

\* the offset of the leftmost match of the template from pos on, or -1
SearchTemplate(data, tpl, pos) ==
    LET hits == {i \in pos..(Len(data) - Len(tpl)) : TemplateAt(data, tpl, i)}
    IN  IF hits = {} THEN -1 ELSE Least(hits)

RECURSIVE Num(_, _, _)
\* the number written by the n digits of data from pos on
Num(data, pos, n) ==
    IF n = 0 THEN 0
    ELSE Num(data, pos, n - 1) * 10 + (At(data, pos + n - 1) - 48)

\* str.strip() of a str of ASCII characters
RECURSIVE strip(_)
strip(s) ==
    IF s = <<>> THEN s
    ELSE IF Head(s) \in Space THEN strip(Tail(s))
    ELSE IF s[Len(s)] \in Space THEN strip(SubSeq(s, 1, Len(s) - 1))
    ELSE s

\* the dict without keys
EmptyDict == [k \in {} |-> 0]

\* the dict {key: val} when found, else the dict without keys
Entry(key, val, found) == IF found THEN (key :> val) ELSE EmptyDict

(***************************************************************************)
(* The Smart Tacho V2 decoder: header, driver data, vehicle data.          *)
(***************************************************************************)

\* date_patterns: YYYY-MM-DD HH:MM:SS, DD/MM/YYYY HH:MM, YYYYMMDD HHMMSS
date_patterns ==
    << <<0, 0, 0, 0, 45, 0, 0, 45, 0, 0, 32, 0, 0, 58, 0, 0, 58, 0, 0>>,
       <<0, 0, 47, 0, 0, 47, 0, 0, 0, 0, 32, 0, 0, 58, 0, 0>>,
       <<0, 0, 0, 0, 0, 0, 0, 0, 32, 0, 0, 0, 0, 0, 0>> >>

\* the fields <<Y, m, d, H, M, S>> written by a match of date pattern k at
\* pos; of the three formats tried by strptime only the k-th has its shape
DateFields(data, k, pos) ==
    CASE k = 1 -> <<Num(data, pos, 4), Num(data, pos + 5, 2), Num(data, pos + 8, 2),
                    Num(data, pos + 11, 2), Num(data, pos + 14, 2),
                    Num(data, pos + 17, 2)>>
      [] k = 2 -> <<Num(data, pos + 6, 4), Num(data, pos + 3, 2), Num(data, pos, 2),
                    Num(data, pos + 11, 2), Num(data, pos + 14, 2), 0>>
      [] k = 3 -> <<Num(data, pos, 4), Num(data, pos + 4, 2), Num(data, pos + 6, 2),
                    Num(data, pos + 9, 2), Num(data, pos + 11, 2),
                    Num(data, pos + 13, 2)>>

RECURSIVE DateScan(_, _)
\* 'for pattern in date_patterns' from the k-th pattern on
DateScan(data, k) ==
    IF k > Len(date_patterns) THEN NA
    ELSE LET pos == SearchTemplate(data, date_patterns[k], 0)
             f == DateFields(data, k, pos)
         IN  IF pos # -1 /\ ~ DatetimeError(f[1], f[2], f[3], f[4], f[5], f[6])
             THEN strftime(f)
             ELSE DateScan(data, k + 1)

_extract_v2_timestamp_alternative(raw_data) ==
    DateScan(Slice(raw_data, 0, 1000), 1)

RECURSIVE CreationTimeAt(_, _, _)
\* 'for offset in [20, 24, 28, 32]' from the k-th offset on: the first
\* timestamp after the VDO marker that is not "N/A", or "N/A"
CreationTimeAt(raw_data, vdo_pos, k) ==
    IF k > 4 THEN NA
    ELSE LET offset == 16 + 4 * k
             parsed_time ==
                 IF vdo_pos + offset + 4 < Len(raw_data)
                 THEN _parse_timestamp(Slice(raw_data, vdo_pos + offset,
                                             vdo_pos + offset + 4))
                 ELSE NA
         IN  IF parsed_time # NA THEN parsed_time
             ELSE CreationTimeAt(raw_data, vdo_pos, k + 1)

RECURSIVE FirstVersion(_, _, _)
\* group 1 of the first firmware pattern, from the k-th on, that matches
FirstVersion(data, lits, k) ==
    IF k > Len(lits) THEN <<>>
    ELSE LET g == SearchVersion(data, lits[k], 0)
         IN  IF g # <<>> THEN g ELSE FirstVersion(data, lits, k + 1)

_parse_v2_header(raw_data) ==
    LET vdo   == contains(Slice(raw_data, 0, 200), <<86, 68, 79>>)  \* VDO
        smart == contains(Slice(raw_data, 0, 500), <<83, 77, 65, 82, 84>>)  \* SMART
        conti == contains(Slice(raw_data, 0, 300),
                          <<67, 111, 110, 116, 105, 110, 101, 110, 116, 97, 108>>)  \* Continental
        vdo_time == IF vdo
                    THEN CreationTimeAt(raw_data, find(raw_data, <<86, 68, 79>>, 0), 1)
                    ELSE NA
        serial == FirstSearch(Slice(raw_data, 0, 800),
                      << <<<<83, 78, 58>>, UpperAlnum, 8, 16>>,  \* SN:
                         <<<<83, 69, 82, 73, 65, 76, 58>>, UpperAlnum, 8, 16>>,  \* SERIAL:
                         <<<<83, 47, 78, 58>>, UpperAlnum, 8, 16>>,  \* S/N:
                         <<<<83, 69, 82, 58>>, UpperAlnum, 8, 16>> >>,  \* SER:
                      FALSE, 1)
        fw == FirstVersion(Slice(raw_data, 0, 800),
                      << <<70, 87, 58>>,  \* FW:
                         <<70, 73, 82, 77, 87, 65, 82, 69, 58>>,  \* FIRMWARE:
                         <<86, 69, 82, 58>>,  \* VER:
                         <<86>> >>, 1)  \* V
    IN  Return(
            [format |-> "Smart Tacho V2",
             file_size |-> Len(raw_data),
             markers_found |-> (IF vdo THEN <<"VDO">> ELSE <<>>)
                                 \o (IF smart THEN <<"SMART">> ELSE <<>>)
                                 \o (IF conti THEN <<"Continental">> ELSE <<>>),
             creation_time |-> IF vdo_time # NA THEN vdo_time
                               ELSE _extract_v2_timestamp_alternative(raw_data)]
            @@ Entry("device_manufacturer", "VDO", vdo)
            @@ Entry("device_type", "Smart Tacho", smart)
            @@ Entry("manufacturer", "Continental", conti)
            @@ Entry("serial_number", serial, serial # <<>>)
            @@ Entry("firmware_version", fw, fw # <<>>))

_parse_v2_driver_data(raw_data) ==
    LET data == Slice(raw_data, 0, 3000)
        card == FirstSearch(data,
                    << <<<<67, 65, 82, 68, 58>>, Alnum, 16, 16>>,  \* CARD:
                       <<<<67, 65, 82, 68, 95, 78, 79, 58>>, Alnum, 16, 16>>,  \* CARD_NO:
                       <<<<67, 65, 82, 68, 78, 79, 58>>, Alnum, 16, 16>>,  \* CARDNO:
                       <<<<67, 65, 82, 68, 95, 78, 85, 77, 58>>, Alnum, 8, 20>> >>,  \* CARD_NUM:
                    TRUE, 1)
        name == FirstSearch(data,
                    << <<<<78, 65, 77, 69, 58>>, NameClass, 2, 40>>,  \* NAME:
                       <<<<68, 82, 73, 86, 69, 82, 58>>, NameClass, 2, 40>>,  \* DRIVER:
                       <<<<83, 85, 82, 78, 65, 77, 69, 58>>, NameClass, 2, 40>>,  \* SURNAME:
                       <<<<68, 82, 86, 82, 58>>, NameClass, 2, 40>> >>,  \* DRVR:
                    TRUE, 1)
        lic  == FirstSearch(data,
                    << <<<<76, 73, 67, 58>>, Alnum, 5, 20>>,  \* LIC:
                       <<<<76, 73, 67, 69, 78, 83, 69, 58>>, Alnum, 5, 20>>,  \* LICENSE:
                       <<<<76, 73, 67, 69, 78, 67, 69, 58>>, Alnum, 5, 20>>,  \* LICENCE:
                       <<<<68, 76, 58>>, Alnum, 5, 20>> >>,  \* DL:
                    TRUE, 1)
    IN  Return(
            Entry("card_number", strip(decode_ascii_ignore(card)), card # <<>>)
            @@ Entry("driver_name", strip(decode_ascii_ignore(name)), name # <<>>)
            @@ Entry("license_number", strip(decode_ascii_ignore(lic)), lic # <<>>))

_parse_v2_vehicle_data(raw_data) ==
    LET data == Slice(raw_data, 0, 2000)
        vin == FirstSearch(data,
                   << <<<<86, 73, 78, 58>>, VinClass, 17, 17>>,  \* VIN:
                      <<<<86, 69, 72, 73, 67, 76, 69, 95, 73, 68, 58>>, VinClass, 17, 17>>,  \* VEHICLE_ID:
                      <<<<86, 73, 78, 95, 78, 79, 58>>, VinClass, 17, 17>>,  \* VIN_NO:
                      <<<<87, 86, 73, 78, 58>>, VinClass, 17, 17>> >>,  \* WVIN:
                   FALSE, 1)
        reg == FirstSearch(data,
                   << <<<<82, 69, 71, 58>>, RegClass, 2, 15>>,  \* REG:
                      <<<<80, 76, 65, 84, 69, 58>>, RegClass, 2, 15>>,  \* PLATE:
                      <<<<76, 73, 67, 69, 78, 83, 69, 95, 80, 76, 65, 84, 69, 58>>, RegClass, 2, 15>>,  \* LICENSE_PLATE:
                      <<<<76, 80, 58>>, RegClass, 2, 15>> >>,  \* LP:
                   FALSE, 1)
        odo == FirstSearch(data,
                   << <<<<79, 68, 79, 58>>, Digits, 6, 8>>,  \* ODO:
                      <<<<79, 68, 79, 77, 69, 84, 69, 82, 58>>, Digits, 6, 8>>,  \* ODOMETER:
                      <<<<77, 73, 76, 69, 65, 71, 69, 58>>, Digits, 6, 8>>,  \* MILEAGE:
                      <<<<75, 77, 58>>, Digits, 6, 8>> >>,  \* KM:
                   FALSE, 1)
    IN  Return(
            Entry("vin", vin, vin # <<>>)
            @@ Entry("registration", strip(reg), reg # <<>>)
            @@ Entry("odometer", Num(odo, 0, Len(odo)), odo # <<>>))

\* the dict of parse_smart_tacho_v2 built without the groups that decoded
\* nothing
V2DictWithoutEmpty(header, driver_data, vehicle_data, activities, events, speeds) ==
    Return(("format" :> "Smart Tacho V2") @@ ("header" :> header.val)
           @@ Entry("driver_data", driver_data.val, DOMAIN driver_data.val # {})
           @@ Entry("vehicle_data", vehicle_data.val, DOMAIN vehicle_data.val # {})
           @@ Entry("activities", activities.val, Len(activities.val) > 0)
           @@ Entry("events", events.val, Len(events.val) > 0)
           @@ Entry("speeds", speeds.val, Len(speeds.val) > 0))

\* the dict literal of parse_smart_tacho_v2 for the outcomes of the six
\* group decoders, or the error dict of its handler when one of them lets an
\* exception escape
V2Dict(header, driver_data, vehicle_data, activities, events, speeds) ==
    IF header.exc \/ driver_data.exc \/ vehicle_data.exc
       \/ activities.exc \/ events.exc \/ speeds.exc
    THEN Return([error |-> "Blad parsowania Smart Tacho V2",
                 format |-> "Smart Tacho V2"])
    ELSE Return([format       |-> "Smart Tacho V2",
                 header       |-> header.val,
                 driver_data  |-> driver_data.val,
                 vehicle_data |-> vehicle_data.val,
                 activities   |-> activities.val,
                 events       |-> events.val,
                 speeds       |-> speeds.val])

parse_smart_tacho_v2(raw_data) ==
    V2Dict(_parse_v2_header(raw_data), _parse_v2_driver_data(raw_data),
           _parse_v2_vehicle_data(raw_data), _parse_v2_activities(raw_data),
           _parse_v2_events(raw_data), _parse_v2_speeds(raw_data))

(***************************************************************************)
(* Buffers the calls are made on.                                          *)
(***************************************************************************)

\* how many activity records a generated Standard EU buffer holds at most
MaxRecords == 2

\* n bytes of value b
Fill(n, b) == [k \in 1..n |-> b]

\* s followed by NUL bytes up to length n
Pad(s, n) == s \o Fill(n - Len(s), 0)

\* all sequences over S of length at most n
SeqsUpTo(S, n) == UNION {[1..k -> S] : k \in 0..n}

RECURSIVE Flatten(_)
\* the concatenation of a sequence of sequences
Flatten(ss) == IF ss = <<>> THEN <<>> ELSE Head(ss) \o Flatten(Tail(ss))

\* a 20-byte Standard EU header: DDD\0, version 1, creation time, length, signature
Header20(ts) ==
    <<68, 68, 68, 0>> \o <<0, 1>> \o ts \o <<0, 0, 0, 64>> \o <<171, 205, 239, 1, 2, 3>>

\* 8-byte activity records: BCD start, code, duration, one trailing byte
\*   24 10 15 95 | 03 driving  | 90 | 00
\*   24 02 30 10 | 07 unmapped | 45 | 06   (30 February)
RecordChoices ==
    { <<36, 16, 21, 149, 3, 0, 90, 0>>,
      <<36, 2, 48, 16, 7, 0, 45, 6>> }

\* the activities group: tag 05 02, two bytes, the declared count, the records
ActivityGroup(declared, recs) ==
    <<5, 2, 0, 0>> \o <<declared \div 256, declared % 256>> \o Flatten(recs)

\* the card group: tag 05 01, name, licence, card number, BCD expiry, authority
CardGroup ==
    <<5, 1, 0, 0>> \o Pad(<<74, 65, 78, 32, 75, 79, 87, 65, 76, 83, 75, 73>>, 36)  \* JAN KOWALSKI
        \o Pad(<<76, 73, 67, 49, 50, 51>>, 16)  \* LIC123
        \o Pad(<<67, 65, 82, 68, 48, 48, 48, 49>>, 18)  \* CARD0001
        \o <<48, 18, 49, 35>>  \* 30 12 31 23
        \o Pad(<<85, 82, 90, 65, 68>>, 36)  \* URZAD

\* the vehicle group: tag 05 05, registration, VIN, odometers, speed limit
VehicleGroup ==
    <<5, 5, 0, 0>> \o Pad(<<87, 65, 49, 50, 51, 52, 53>>, 14)  \* WA12345
        \o <<86, 73, 78, 48, 49, 50, 51, 52, 53, 54, 55, 56, 57, 65, 66, 67, 68>>  \* VIN0123456789ABCD
        \o <<0, 1, 134, 160>> \o <<238, 107, 40, 0>> \o <<0, 90>>

\* Standard EU buffers: a header, then an activities group of up to
\* MaxRecords records whose declared count is the number of records
StandardBuffers ==
    { Header20(<<101, 83, 241, 0>>) \o ActivityGroup(Len(recs), recs) \o Fill(7, 0) :
          recs \in SeqsUpTo(RecordChoices, MaxRecords) }

\* a complete Standard EU file, the same file without its DDD header (the
\* card tag at offset 0), the file cut inside the declared count, and a
\* header alone whose creation time is 1 (1970-01-01 00:00:01)
SectionBuffers ==
    LET full == Header20(<<101, 83, 241, 0>>) \o CardGroup \o VehicleGroup
                    \o <<5, 3, 0, 0>> \o <<5, 4, 0, 0>>
                    \o ActivityGroup(2, << <<36, 16, 21, 149, 3, 0, 90, 0>>,
                                          <<36, 1, 1, 0, 0, 0, 45, 0>> >>)
                    \o Fill(7, 0)
    IN  { full, Slice(full, 20, Len(full)), Slice(full, 0, Len(full) - 27),
          Header20(<<0, 0, 0, 1>>) }

\* buffers without any tag or marker: 120 bytes of 07, and a buffer whose
\* bytes 3..4 read as a record count of 1
GarbageBuffers ==
    { Fill(120, 7),
      <<7, 7, 7, 0, 1, 36, 10, 21, 0, 3, 0, 90, 0>> \o Fill(7, 0) }

\* the lengths below 20 that buffers are cut to
ShortLens == {0, 3, 13, 19}

\* buffers shorter than 20 bytes, of every format the detector tells apart
ShortBuffers ==
    { Slice(b, 0, n) :
          b \in { Header20(<<0, 0, 0, 1>>),
                  <<7, 7, 7, 0, 1, 36, 10, 21, 0, 3, 0, 90, 0>> \o Fill(7, 0),
                  <<115, 116, 118, 50>> \o Fill(16, 0) },  \* stv2
          n \in ShortLens }
    \cup { <<69, 70, 65, 83>> }  \* EFAS

\* a 50-byte ACT: block: start and end time, code, duration
ActBlock(code, duration) ==
    Pad(ACT \o <<101, 83, 241, 0>> \o <<101, 84, 6, 24>> \o <<code>>
            \o <<duration \div 256, duration % 256>>, 50)

\* the first 108 bytes of a Smart Tacho V2 file: VDO, SMART, a date
V2Head(date) == Pad(<<86, 68, 79>> \o Fill(17, 0) \o <<83, 77, 65, 82, 84, 32>> \o date, 108)

\* the codes and durations of the ACT: blocks of the generated buffers
BlockChoices ==
    { <<>>,
      << <<16, 90>> >>,
      << <<7, 45>> >>,
      << <<16, 90>>, <<64, 1441>> >>,
      << <<0, 15>>, <<7, 45>>, <<48, 600>> >> }

\* Smart Tacho V2 buffers: the head, some ACT: blocks and one more byte;
\* one buffer that ends with its ACT: block; one with an impossible date
V2Buffers ==
    { V2Head(<<49, 57, 57, 57, 45, 49, 50, 45, 51, 49, 32, 50, 51, 58, 53, 57, 58, 53, 57>>)  \* 1999-12-31 23:59:59
          \o Flatten([k \in 1..Len(bs) |-> ActBlock(bs[k][1], bs[k][2])])
          \o <<0>> : bs \in BlockChoices }
    \cup
    { V2Head(<<50, 48, 50, 52, 45, 48, 50, 45, 51, 48, 32, 49, 48, 58, 48, 48, 58, 48, 48>>)  \* 2024-02-30 10:00:00
          \o ActBlock(16, 90),
      V2Head(<<50, 48, 50, 52, 45, 48, 50, 45, 51, 48, 32, 49, 48, 58, 48, 48, 58, 48, 48>>)
          \o ActBlock(16, 90) \o <<0>> }

\* a Smart Tacho V2 file with identity fields, an event and speed samples,
\* and one whose activities are found by the binary scan
V2FieldBuffers ==
    { <<107, 105, 101, 110, 122, 108, 101, 32, 67, 65, 82, 68, 58, 97, 98, 99, 100, 101, 102, 103, 104, 49, 50, 51, 52, 53, 54, 55, 56, 88, 88, 32, 110, 97, 109, 101, 58, 32, 74, 97, 110, 32, 75, 111, 119, 97, 108, 115, 107, 105, 32, 55, 32, 86, 73, 78, 58, 65, 66, 67, 68, 69, 70, 71, 72, 74, 75, 76, 77, 78, 80, 82, 83, 84, 32, 82, 69, 71, 58, 32, 87, 65, 32, 49, 50, 51, 45, 88, 32, 32, 79, 68, 79, 58, 49, 50, 51, 52, 53, 54, 55, 32, 83, 78, 58, 65, 66, 67, 68, 69, 70, 71, 72, 49, 50, 32, 70, 87, 58, 49, 46, 50, 50, 46, 51, 32>>
          \o <<69, 86, 84, 58>> \o <<101, 83, 241, 0>> \o <<1, 5>> \o Fill(24, 0)
          \o <<83, 80, 68, 58>> \o <<101, 83, 241, 0>> \o <<0, 80, 5, 220>> \o Fill(8, 0)
          \o <<83, 80, 68, 58>> \o <<101, 83, 241, 0>> \o <<0, 200, 5, 220>> \o Fill(9, 0),
      <<83, 84, 86, 50>> \o Fill(12, 0)
          \o <<16, 0, 0, 0, 5, 0, 16, 0>> \o Fill(8, 0)
          \o <<0, 0, 0, 0, 64, 0, 0, 0, 0, 1>> \o Fill(6, 0)
          \o <<255, 255, 255, 255, 0, 0, 0, 0, 80, 0, 0, 0, 5, 159, 0, 0>>
          \o Fill(16, 0) }

\* the two records of a well-formed file: driving for 90 minutes, a break of 45
TwoRecords == << <<36, 16, 21, 149, 3, 0, 90, 0>>, <<36, 1, 1, 0, 0, 0, 45, 0>> >>

\* Standard EU files around the activities group: one that ends with its
\* last record, one that declares a record more than it holds, one whose
\* header carries a vendor marker, and files cut after the tag, inside the
\* two bytes that follow it and inside the declared count
ActivityBuffers ==
    { Header20(<<101, 83, 241, 0>>) \o ActivityGroup(2, TwoRecords),
      Header20(<<101, 83, 241, 0>>) \o ActivityGroup(3, TwoRecords) \o Fill(7, 0),
      Pad(<<68, 68, 68, 32, 75, 105, 101, 110, 122, 108, 101, 32>>, 20) \o ActivityGroup(2, TwoRecords) \o Fill(7, 0) }
    \cup
    { Slice(Header20(<<101, 83, 241, 0>>) \o ActivityGroup(2, TwoRecords), 0, 20 + n) :
          n \in 2..5 }

\* a buffer of 61 bytes that starts with VDO, holds SMART and one ACT: block
V2ShortBuffers == { <<86, 68, 79, 32, 83, 77, 65, 82, 84, 32>> \o ActBlock(16, 90) \o <<0>> }

\* a Standard EU file whose events tag 05 03 is followed by a count of 2 and
\* two 8-byte records, and whose speed tag 05 04 is followed by a count of 3
\* and three speed samples
EventSpeedBuffers ==
    { Header20(<<101, 83, 241, 0>>)
          \o <<5, 3, 0, 0, 0, 2>> \o <<101, 83, 241, 0, 17, 0, 0, 9>>
          \o <<101, 83, 242, 0, 18, 0, 0, 9>>
          \o <<5, 4, 0, 0, 0, 3>> \o <<80, 82, 79>> }

\* the buffers parse is called on
Inputs ==
    StandardBuffers \cup SectionBuffers \cup GarbageBuffers \cup ShortBuffers
        \cup V2Buffers \cup V2FieldBuffers \cup ActivityBuffers
        \cup V2ShortBuffers \cup EventSpeedBuffers

\* the buffers of the concurrent calls
ConcInputs ==
    { Header20(<<0, 0, 0, 1>>) \o ActivityGroup(1, << <<36, 16, 21, 149, 3, 0, 90, 0>> >>)
          \o Fill(7, 0),
      <<115, 116, 118, 50>> }  \* stv2

\* the buffers detect_tacho_version is called on: the rules one by one, two
\* rules at once, markers at the edges of the inspected prefixes
DetectInputs ==
    { <<>>,
      <<86, 68, 79>> \o Fill(10, 0),
      <<86, 68, 79>> \o Fill(110, 0),
      Fill(5, 0) \o <<83, 77, 65, 82, 84>> \o Fill(5, 0),
      Fill(5, 0) \o <<83, 77, 65, 82, 84>> \o Fill(100, 0),
      <<83, 84, 118, 50>>,
      <<68, 68, 68>> \o <<32, 75, 105, 101, 110, 122, 108, 101, 32>>,
      <<68, 68, 68>> \o <<0>> \o <<69, 70, 65, 83>>,
      <<68, 68, 68>>,
      Fill(7, 32) \o <<86, 68, 79>> \o Fill(480, 32) \o <<83, 109, 97, 114, 116>>,
      Fill(7, 32) \o <<86, 68, 79>> \o Fill(490, 32) \o <<83, 109, 97, 114, 116>>,
      <<120, 120, 32, 69, 70, 65, 83>>,
      Fill(97, 32) \o <<69, 70, 65, 83>>,
      <<83, 116, 111, 110, 101, 114, 105, 100, 103, 101>>,
      <<97, 32, 83, 105, 101, 109, 101, 110, 115, 32, 86, 68, 79, 32, 98>>,
      Fill(1200, 32) \o <<107, 105, 101, 110, 122, 108, 101>>,
      Fill(994, 32) \o <<107, 105, 101, 110, 122, 108, 101>>,
      Fill(120, 7) }

(***************************************************************************)
(* parse as a function: the result of a call made alone on a new instance. *)
(***************************************************************************)

\* the dict literal of the Standard EU branch of parse for the buffer raw
StandardDict(tacho_version, raw) ==
    [format       |-> tacho_version,
     header       |-> _parse_header(raw).val,
     card_data    |-> _parse_card_data(raw).val,
     vehicle_data |-> _parse_vehicle_data(raw).val,
     activities   |-> _parse_activities(raw).val,
     events       |-> _parse_events(raw).val,
     speeds       |-> _parse_speeds(raw).val]

\* TachoParser().parse(b)
ParseResult(b) ==
    IF detect_tacho_version(b) = "Smart Tacho V2"
    THEN parse_smart_tacho_v2(b).val
    ELSE StandardDict(detect_tacho_version(b), b)

(***************************************************************************)
(* The state machine.  One TachoParser instance (self.raw_data and         *)
(* self.parsed_data) is used from the call sites in Threads; each call of  *)
(* parse advances statement by statement.                                  *)
(***************************************************************************)

VARIABLES
    raw_data,      \* self.raw_data
    parsed_data,   \* self.parsed_data
    pc,            \* the statement every call site is at
    arg,           \* the parameter raw_data of every call site's call
    loc,           \* the entries of the dict literal evaluated so far
    last,          \* the call of parse that returned last
    prim,          \* the last direct call of a reader
    processing_status,   \* the dict the global processing_status of app.py names
    handlers,      \* the requests to /upload that are being answered
    runs,          \* the threads of process_files_background
    disk           \* the paths that exist in UPLOAD_FOLDER

\* the state of the web application of app.py
web == <<processing_status, handlers, runs, disk>>

\* the state of the decoder
decoder == <<raw_data, parsed_data, pc, arg, loc, last, prim>>

vars == <<raw_data, parsed_data, pc, arg, loc, last, prim, web>>

\* the requests that can be under way at once, and the threads of
\* process_files_background that can be alive at once
MaxRequests == 2
MaxRuns == 2
Requests == 1..MaxRequests
Runs == 1..MaxRuns

\* the global processing_status as the module creates it; current_file
\* and start_time are left out, and errors is the set of the kinds of its
\* messages
InitialStatus ==
    [active |-> FALSE, total_files |-> 0, processed_files |-> 0,
     errors |-> {}, output_file |-> "None"]

\* no request is being answered
NoRequest == [at |-> "idle", files |-> <<>>]

\* no thread: the slot of a thread that was not started or has ended
NoRun == [at |-> "idle", file_paths |-> <<>>, index |-> 0, workshifts |-> 0,
          loaded |-> -1]

Threads == {1, 2}

\* no call of parse has returned
NoCall == [called |-> FALSE, buf |-> <<>>, out |-> Return(EmptyDict)]

\* no reader has been called directly
NoPrim == [fn |-> "none", inp |-> <<>>, out |-> <<>>]

\* every call site is outside parse
Quiet == \A t \in Threads : pc[t] = "idle"

\* __init__
Init ==
    /\ raw_data = None
    /\ parsed_data = EmptyDict
    /\ pc = [t \in Threads |-> "idle"]
    /\ arg = [t \in Threads |-> <<>>]
    /\ loc = [t \in Threads |-> EmptyDict]
    /\ last = NoCall
    /\ prim = NoPrim
    /\ processing_status = InitialStatus
    /\ handlers = [q \in Requests |-> NoRequest]
    /\ runs = [r \in Runs |-> NoRun]
    /\ disk = {}

\* parse, entry: self.raw_data = raw_data
Call(t, b) ==
    /\ pc[t] = "idle"
    /\ raw_data' = b
    /\ arg' = [arg EXCEPT ![t] = b]
    /\ pc' = [pc EXCEPT ![t] = "detect"]
    /\ loc' = [loc EXCEPT ![t] = EmptyDict]
    /\ prim' = NoPrim
    /\ UNCHANGED <<web, parsed_data, last>>

\* a call of parse made while no other call is running
SeqCall(b) == Quiet /\ Call(1, b)

\* a call of parse made whatever the other call site is doing
ConcCall(t, b) == Call(t, b)

\* an exception leaves parse: the call ends without a result
Escape(t, e) ==
    /\ last' = [called |-> TRUE, buf |-> arg[t], out |-> Raise(e)]
    /\ pc' = [pc EXCEPT ![t] = "idle"]
    /\ arg' = [arg EXCEPT ![t] = <<>>]
    /\ loc' = [loc EXCEPT ![t] = EmptyDict]
    /\ UNCHANGED <<web, raw_data, parsed_data, prim>>

\* tacho_version = self.detect_tacho_version(raw_data), and the branch
Detect(t) ==
    /\ pc[t] = "detect"
    /\ LET tacho_version == detect_tacho_version(arg[t])
       IN  /\ loc' = [loc EXCEPT ![t] = [format |-> tacho_version]]
           /\ pc' = [pc EXCEPT ![t] = IF tacho_version = "Smart Tacho V2"
                                      THEN "v2" ELSE "header"]
    /\ UNCHANGED <<web, raw_data, parsed_data, arg, last, prim>>

\* self.parsed_data = self.parse_smart_tacho_v2(raw_data)
ParseV2(t) ==
    /\ pc[t] = "v2"
    /\ LET out == parse_smart_tacho_v2(arg[t])
       IN  IF out.exc THEN Escape(t, out.val)
           ELSE /\ parsed_data' = out.val
                /\ pc' = [pc EXCEPT ![t] = "return"]
                /\ UNCHANGED <<web, raw_data, arg, loc, last, prim>>

\* one entry of the dict literal of the Standard EU branch: the decoder's
\* value is kept under key, or its exception leaves parse
Group(t, at, key, out, next) ==
    /\ pc[t] = at
    /\ IF out.exc THEN Escape(t, out.val)
       ELSE /\ loc' = [loc EXCEPT ![t] = (key :> out.val) @@ loc[t]]
            /\ pc' = [pc EXCEPT ![t] = next]
            /\ UNCHANGED <<web, raw_data, parsed_data, arg, last, prim>>

\* 'header': self._parse_header()
Header(t) == Group(t, "header", "header", _parse_header(raw_data), "card")

\* 'card_data': self._parse_card_data()
Card(t) == Group(t, "card", "card_data", _parse_card_data(raw_data), "vehicle")

\* 'vehicle_data': self._parse_vehicle_data()
Vehicle(t) ==
    Group(t, "vehicle", "vehicle_data", _parse_vehicle_data(raw_data), "activities")

\* 'activities': self._parse_activities()
Activities(t) ==
    Group(t, "activities", "activities", _parse_activities(raw_data), "events")

\* 'events': self._parse_events()
Events(t) == Group(t, "events", "events", _parse_events(raw_data), "speeds")

\* 'speeds': self._parse_speeds()
Speeds(t) == Group(t, "speeds", "speeds", _parse_speeds(raw_data), "store")

\* parse whose Standard EU branch adds its entries to the dict the instance
\* holds: 'self.parsed_data.update({...})'
StoreMerging(t) ==
    /\ pc[t] = "store"
    /\ parsed_data' = loc[t] @@ parsed_data
    /\ pc' = [pc EXCEPT ![t] = "return"]
    /\ UNCHANGED <<web, raw_data, arg, loc, last, prim>>

\* self.parsed_data = {...}
Store(t) ==
    /\ pc[t] = "store"
    /\ parsed_data' = loc[t]
    /\ pc' = [pc EXCEPT ![t] = "return"]
    /\ UNCHANGED <<web, raw_data, arg, loc, last, prim>>

\* return self.parsed_data
ReturnResult(t) ==
    /\ pc[t] = "return"
    /\ last' = [called |-> TRUE, buf |-> arg[t], out |-> Return(parsed_data)]
    /\ pc' = [pc EXCEPT ![t] = "idle"]
    /\ arg' = [arg EXCEPT ![t] = <<>>]
    /\ loc' = [loc EXCEPT ![t] = EmptyDict]
    /\ UNCHANGED <<web, raw_data, parsed_data, prim>>

\* TachoParser(): the caller goes on with a fresh instance
NewParser ==
    /\ Quiet
    /\ raw_data # None
    /\ prim = NoPrim
    /\ raw_data' = None
    /\ parsed_data' = EmptyDict
    /\ UNCHANGED <<web, pc, arg, loc, last, prim>>

(***************************************************************************)
(* Direct calls of the readers, each on an instance of its own whose       *)
(* buffer holds the bytes of the field.                                    *)
(***************************************************************************)

\* the bytes the fields of a BCD timestamp are drawn from
YearBytes == {36, 153, 160}            \* 24 99 A0
MonthBytes == {0, 2, 10, 18, 19}       \* 00 02 0A 12 13
DayBytes == {0, 21, 41, 48, 49, 50}    \* 00 15 29 30 31 32
TimeBytes == {0, 149, 150, 163}        \* 00 95 96 A3

\* the latitudes and longitudes, in micro-degrees, a location is drawn from
LatValues ==
    {-2147483647 - 1, -95000000, -90000001, -90000000, -1, 0, 52229676,
     90000000, 90000001, 95000000, 180000000, 2147483647}
LonValues ==
    {-2147483647 - 1, -180000001, -180000000, -90000001, 0, 21012229,
     95000000, 180000000, 180000001, 2147483647}

\* struct.pack('>i', v)
pack_i(v) ==
    <<(v \div 16777216) % 256, (v \div 65536) % 256, (v \div 256) % 256, v % 256>>

\* the value v in canonical form: comparing it orders the fields of its
\* records and the elements of its sets once, where the call is set up, so
\* that no two steps order one value at the same time
Canonical(v) == IF v = v THEN v ELSE v

\* the step of a direct call: prim holds the reader, its input and its outcome
DirectStep(fn, raw, inp, out) ==
    /\ Quiet
    /\ raw_data' = raw
    /\ parsed_data' = EmptyDict
    /\ prim' = [fn |-> fn, inp |-> inp, out |-> out]
    /\ last' = NoCall
    /\ UNCHANGED <<web, pc, arg, loc>>

\* a reader is called on an instance made for the call
Direct(fn, raw, inp, out) == DirectStep(fn, raw, Canonical(inp), Canonical(out))

\* self._parse_timestamp_bcd(0) on a buffer of four bytes, or of the first
\* n of them
BcdCall(y, m, d, hm, n) ==
    LET raw == Slice(<<y, m, d, hm>>, 0, n)
    IN  Direct("_parse_timestamp_bcd", raw, raw, _parse_timestamp_bcd(raw, 0))

\* self.detect_tacho_version(b) on a new instance; b is a buffer, or None,
\* on which the first statement of the method fails
DetectCall(b) ==
    Direct("detect_tacho_version", None, b, detect_tacho_version(b))

\* self._parse_location(0) on the eight bytes of a latitude and a longitude,
\* or on the first n of them
LocationCall(lat, lon, n) ==
    LET raw == Slice(pack_i(lat) \o pack_i(lon), 0, n)
    IN  Direct("_parse_location", raw, [lat |-> lat, lon |-> lon, n |-> n],
               _parse_location(raw, 0))

(***************************************************************************)
(* The caller: DDDParser of app.py.  A str is the sequence of its          *)
(* characters, a date is <<year, month, day>>, and datetime.now() is Now.  *)
(***************************************************************************)

Now == <<0, 0, 0>>

Nieznany == <<78, 105, 101, 122, 110, 97, 110, 121>>

NieznanyKierowca == <<78, 105, 101, 122, 110, 97, 110, 121, 32, 107, 105, 101, 114, 111, 119, 99, 97>>

\* the characters str.strip() removes from a str of Latin-1 characters
StrSpace == {9, 10, 11, 12, 13, 28, 29, 30, 31, 32, 133, 160}

RECURSIVE str_strip(_)
\* str(s).strip()
str_strip(s) ==
    IF s = <<>> THEN s
    ELSE IF Head(s) \in StrSpace THEN str_strip(Tail(s))
    ELSE IF s[Len(s)] \in StrSpace THEN str_strip(SubSeq(s, 1, Len(s) - 1))
    ELSE s

RECURSIVE BasenameFrom(_, _)
\* the part of path after its last '/', the '/' searched from at on
BasenameFrom(path, at) ==
    IF at = -1 THEN path
    ELSE BasenameFrom(Slice(path, at + 1, Len(path)),
                      find(Slice(path, at + 1, Len(path)), <<47>>, 0))

\* os.path.basename(file_path)
basename(file_path) == BasenameFrom(file_path, find(file_path, <<47>>, 0))

RECURSIVE Removed(_, _)
RECURSIVE RemovedAt(_, _, _)
RemovedAt(s, pat, at) ==
    IF at = -1 THEN s
    ELSE Slice(s, 0, at) \o Removed(Slice(s, at + Len(pat), Len(s)), pat)

\* s.replace(pat, '')
Removed(s, pat) == RemovedAt(s, pat, find(s, pat, 0))

RECURSIVE split(_, _)
RECURSIVE SplitAt(_, _, _)
SplitAt(s, sep, at) ==
    IF at = -1 THEN <<s>>
    ELSE <<Slice(s, 0, at)>> \o split(Slice(s, at + 1, Len(s)), sep)

\* s.split(sep) for a separator of one character
split(s, sep) == SplitAt(s, sep, find(s, <<sep>>, 0))

RECURSIVE join(_, _)
\* sep.join(parts)
join(sep, parts) ==
    IF parts = <<>> THEN <<>>
    ELSE IF Len(parts) = 1 THEN parts[1]
    ELSE parts[1] \o sep \o join(sep, Tail(parts))

\* s.isdigit() for a str of ASCII characters
isdigit(s) == s # <<>> /\ \A k \in 1..Len(s) : s[k] \in Digits

\* datetime(y, m, d), or None where strptime raises ValueError
DateOf(y, m, d) == IF DatetimeError(y, m, d, 0, 0, 0) THEN None ELSE <<y, m, d>>

\* datetime.strptime(s, '%Y%m%d') for a str of eight digits
strptime_Ymd(s) == DateOf(Num(s, 0, 4), Num(s, 4, 2), Num(s, 6, 2))

\* the first element of a sequence, or None
FirstOr(s) == IF s = <<>> THEN None ELSE s[1]

\* the fallback date_patterns of _parse_filename_advanced: YYYYMMDD,
\* YYYY-MM-DD, DD-MM-YYYY (0: a digit)
filename_date_patterns ==
    << <<0, 0, 0, 0, 0, 0, 0, 0>>,
       <<0, 0, 0, 0, 45, 0, 0, 45, 0, 0>>,
       <<0, 0, 45, 0, 0, 45, 0, 0, 0, 0>> >>

\* the date written by a match of pattern k at pos; of the three formats
\* tried by strptime only the k-th has the shape of the match
FilenameDateAt(filename, k, pos) ==
    CASE k = 1 -> DateOf(Num(filename, pos, 4), Num(filename, pos + 4, 2),
                         Num(filename, pos + 6, 2))
      [] k = 2 -> DateOf(Num(filename, pos, 4), Num(filename, pos + 5, 2),
                         Num(filename, pos + 8, 2))
      [] k = 3 -> DateOf(Num(filename, pos + 6, 4), Num(filename, pos + 3, 2),
                         Num(filename, pos, 2))

RECURSIVE FilenameDate(_, _)
RECURSIVE FilenameDateFound(_, _, _)
FilenameDateFound(filename, k, pos) ==
    IF pos # -1 /\ FilenameDateAt(filename, k, pos) # None
    THEN FilenameDateAt(filename, k, pos)
    ELSE FilenameDate(filename, k + 1)

\* 'for pattern in date_patterns' of _parse_filename_advanced from the k-th
\* pattern on
FilenameDate(filename, k) ==
    IF k > Len(filename_date_patterns) THEN None
    ELSE FilenameDateFound(filename, k,
                           SearchTemplate(filename, filename_date_patterns[k], 0))

\* the date found in the parts, or else by the fallback patterns
DateOrFallback(date, filename) ==
    IF date # None THEN date ELSE FilenameDate(filename, 1)

\* " ".join(names) if names, else None
NameOf(names) == IF names = <<>> THEN None ELSE join(<<32>>, names)

\* 'Format 1' of _parse_filename_advanced: at least five parts
FilenameFormat1(filename, parts) ==
    [date        |-> DateOrFallback(
                         IF Len(parts[2]) = 8 /\ isdigit(parts[2])
                         THEN strptime_Ymd(parts[2]) ELSE None, filename),
     driver_name |-> NameOf(SelectSeq(SubSeq(parts, 4, Len(parts)),
                         LAMBDA part : ~ isdigit(part) /\ Len(part) > 1 /\ Len(part) < 15)),
     vehicle_id  |-> parts[1] \o <<95>> \o parts[4]]

\* 'Format 2' of _parse_filename_advanced: three or four parts
FilenameFormat2(filename, parts) ==
    [date        |-> DateOrFallback(
                         FirstOr(SelectSeq(parts,
                             LAMBDA part : /\ Len(part) = 8 /\ isdigit(part)
                                           /\ strptime_Ymd(part) # None)), filename),
     driver_name |-> NameOf(SubSeq(
                         SelectSeq(parts,
                             LAMBDA p : ~ isdigit(p) /\ Len(p) >= 2 /\ Len(p) <= 20),
                         1, 2)),
     vehicle_id  |-> None]

\* _parse_filename_advanced for the parts of the name without its extension
FilenameParts(filename, parts) ==
    IF Len(parts) >= 5 THEN FilenameFormat1(filename, parts)
    ELSE IF Len(parts) >= 3 THEN FilenameFormat2(filename, parts)
    ELSE [date |-> DateOrFallback(None, filename), driver_name |-> None,
          vehicle_id |-> None]

_parse_filename_advanced(filename) ==
    FilenameParts(filename,
        split(Removed(Removed(filename, <<46, 68, 68, 68>>), <<46, 100, 100, 100>>), 95))

\* _generate_sample_activities: the kinds and the minutes of its five entries
_generate_sample_activities ==
    << [activity_type |-> "driving", duration_minutes |-> 90],
       [activity_type |-> "break", duration_minutes |-> 45],
       [activity_type |-> "driving", duration_minutes |-> 120],
       [activity_type |-> "rest", duration_minutes |-> 30],
       [activity_type |-> "driving", duration_minutes |-> 180] >>

\* activity_type_mapping.get(activity_type, 'work')
MappedType(activity_type) ==
    IF activity_type \in {"driving", "work", "available", "rest", "break"}
    THEN activity_type ELSE "work"

\* the DriverActivity made of one decoded entry: its kind and its minutes
DriverActivityOf(activity_data) ==
    [activity_type    |-> MappedType(IF "activity_type" \in DOMAIN activity_data
                                     THEN activity_data.activity_type ELSE "unknown"),
     duration_minutes |-> IF "duration" \in DOMAIN activity_data
                          THEN activity_data.duration ELSE 60]

RECURSIVE ConvertedActivities(_)
\* the loop of _generate_activities_from_parsed: the entries that carry no
\* 'error' key, converted
ConvertedActivities(entries) ==
    IF entries = <<>> THEN <<>>
    ELSE IF "error" \in DOMAIN Head(entries) THEN ConvertedActivities(Tail(entries))
    ELSE <<DriverActivityOf(Head(entries))>> \o ConvertedActivities(Tail(entries))

\* 'if not activities: activities = self._generate_sample_activities(...)'
OrSample(activities) ==
    IF activities = <<>> THEN _generate_sample_activities ELSE activities

_generate_activities_from_parsed(parsed) ==
    IF "activities" \in DOMAIN parsed
    THEN OrSample(ConvertedActivities(SubSeq(parsed.activities, 1,
                                             Min2(20, Len(parsed.activities)))))
    ELSE _generate_sample_activities

RECURSIVE Minutes(_, _)
\* sum(a.duration_minutes for a in activities if a.activity_type in kinds)
Minutes(activities, kinds) ==
    IF activities = <<>> THEN 0
    ELSE (IF Head(activities).activity_type \in kinds
          THEN Head(activities).duration_minutes ELSE 0)
         + Minutes(Tail(activities), kinds)

\* WorkShift(...) followed by _calculate_totals
WorkShift(driver_name, vehicle_id, date, activities) ==
    [driver_name        |-> driver_name,
     vehicle_id         |-> vehicle_id,
     date               |-> date,
     activities         |-> activities,
     total_driving_time |-> Minutes(activities, {"driving"}),
     total_work_time    |-> Minutes(activities, {"driving", "work"}),
     total_rest_time    |-> Minutes(activities, {"rest", "break"})]

\* x or default
Or(x, default) == IF x = None THEN default ELSE x

\* the WorkShift of _create_fallback_workshift for what the filename gives
FallbackOf(filename, parsed) ==
    WorkShift(Or(parsed.driver_name, NieznanyKierowca),
              Or(parsed.vehicle_id, <<86, 69, 72, 95>> \o Slice(filename, 0, 10)),
              Or(parsed.date, Now),
              _generate_sample_activities)

_create_fallback_workshift(file_path) ==
    Return(FallbackOf(basename(file_path), _parse_filename_advanced(basename(file_path))))

\* whether the field of a decoded group is there and is none of "N/A", ""
Decoded(parsed, group, field) ==
    /\ group \in DOMAIN parsed
    /\ field \in DOMAIN parsed[group]
    /\ parsed[group][field] \notin {NA, <<>>}

\* driver_name after the three 'if' statements on parsed_data: the name of
\* driver_data, else the name of card_data, else "Nieznany"
DecodedDriver(parsed) ==
    IF Decoded(parsed, "driver_data", "driver_name")
    THEN str_strip(parsed.driver_data.driver_name)
    ELSE IF Decoded(parsed, "card_data", "driver_name")
    THEN str_strip(parsed.card_data.driver_name)
    ELSE Nieznany

\* vehicle_id after the 'if' statements on parsed_data
DecodedVehicle(parsed, filename) ==
    IF Decoded(parsed, "vehicle_data", "registration")
    THEN str_strip(parsed.vehicle_data.registration)
    ELSE <<86, 69, 72, 95>> \o Slice(filename, 0, 10)

\* the WorkShift of _convert_to_workshift for what the filename gives
ConvertedOf(parsed, filename, parsed_from_filename) ==
    WorkShift(IF parsed_from_filename.driver_name # None
                 /\ DecodedDriver(parsed) = Nieznany
              THEN parsed_from_filename.driver_name
              ELSE DecodedDriver(parsed),
              IF parsed_from_filename.vehicle_id # None
              THEN parsed_from_filename.vehicle_id
              ELSE DecodedVehicle(parsed, filename),
              Or(parsed_from_filename.date, Now),
              _generate_activities_from_parsed(parsed))

\* _convert_to_workshift; raised: an exception is raised inside its try block
_convert_to_workshift(parsed, file_path, raised) ==
    IF raised THEN _create_fallback_workshift(file_path)
    ELSE Return(ConvertedOf(parsed, basename(file_path),
                            _parse_filename_advanced(basename(file_path))))

\* parse_ddd_file without its handlers: what its try blocks let out
parse_ddd_file_unguarded(file_path, read, import, decoded, raised) ==
    IF read.exc THEN read
    ELSE IF import # "loaded" THEN Raise(import)
    ELSE IF decoded.exc THEN decoded
    ELSE _convert_to_workshift(decoded.val, file_path, raised)

\* parse_ddd_file.  read: the outcome of open and file.read(); import: what
\* 'from tacho_lib import tacho_parser' does (the module as shipped raises
\* SyntaxError); decoded: the outcome of parser.parse(raw_data)
parse_ddd_file(file_path, read, import, decoded, raised) ==
    IF read.exc THEN _create_fallback_workshift(file_path)
    ELSE IF import = "ImportError" THEN _create_fallback_workshift(file_path)
    ELSE IF import # "loaded" THEN _create_fallback_workshift(file_path)
    ELSE IF decoded.exc THEN _create_fallback_workshift(file_path)
    ELSE _convert_to_workshift(decoded.val, file_path, raised)

\* the file paths: the format of the comment of the source with a directory,
\* three parts with a date that does not exist, one part, and names with a
\* date DD-MM-YYYY and YYYY-MM-DD
FilePaths ==
    { <<117, 112, 108, 111, 97, 100, 115, 47, 67, 95, 50, 48, 50, 53, 48, 53, 48, 50, 95, 48, 56, 53, 54, 95, 75, 95, 75, 117, 100, 114, 122, 121, 99, 107, 105, 95, 49, 55, 48, 48, 53, 49, 56, 48, 57, 53, 55, 54, 48, 48, 48, 50, 46, 68, 68, 68>>,
      <<106, 97, 110, 95, 107, 111, 119, 97, 108, 115, 107, 105, 95, 50, 48, 50, 53, 48, 50, 51, 48, 46, 100, 100, 100>>,
      <<120, 46, 68, 68, 68>>,
      <<114, 97, 112, 111, 114, 116, 32, 48, 50, 45, 48, 53, 45, 50, 48, 50, 53, 46, 100, 100, 100>>,
      <<50, 48, 50, 53, 45, 48, 53, 45, 48, 50, 95, 87, 65, 49, 50, 51, 52, 53, 46, 68, 68, 68>> }

\* what reading the file gives: an OSError, or the bytes of the file
FileReads ==
    { Raise("OSError") } \cup { Return(b) : b \in SectionBuffers \cup V2FieldBuffers }

\* the outcomes of the six group decoders of the Standard EU branch, in the
\* order of the dict literal
GroupOutcomes(b) ==
    << _parse_header(b), _parse_card_data(b), _parse_vehicle_data(b),
       _parse_activities(b), _parse_events(b), _parse_speeds(b) >>

\* the first outcome of a sequence that is an exception, or else the value
FirstRaised(outs, value) ==
    IF \E k \in 1..Len(outs) : outs[k].exc
    THEN outs[Least({k \in 1..Len(outs) : outs[k].exc})]
    ELSE Return(value)

\* parser.parse(raw_data) on the new instance of parse_ddd_file: the dict, or
\* the exception that leaves parse
ParseOutcome(b) ==
    IF detect_tacho_version(b) = "Smart Tacho V2" THEN parse_smart_tacho_v2(b)
    ELSE FirstRaised(GroupOutcomes(b), ParseResult(b))

\* DDDParser().parse_ddd_file(file_path).  fault: where an exception of the
\* run time (a MemoryError) is raised, in the decoder or in the conversion
ParseFileCall(file_path, read, import, fault) ==
    Direct("parse_ddd_file",
           IF read.exc \/ import # "loaded" THEN None ELSE read.val,
           [file_path |-> file_path, read |-> read, import |-> import, fault |-> fault],
           parse_ddd_file(file_path, read, import,
                          IF read.exc \/ import # "loaded" THEN Return(EmptyDict)
                          ELSE IF fault = "decoder" THEN Raise("MemoryError")
                          ELSE ParseOutcome(read.val),
                          fault = "conversion"))

Next ==
    \/ \E b \in Inputs : SeqCall(b)
    \/ \E t \in Threads : Detect(t)
    \/ \E t \in Threads : ParseV2(t)
    \/ \E t \in Threads : Header(t)
    \/ \E t \in Threads : Card(t)
    \/ \E t \in Threads : Vehicle(t)
    \/ \E t \in Threads : Activities(t)
    \/ \E t \in Threads : Events(t)
    \/ \E t \in Threads : Speeds(t)
    \/ \E t \in Threads : Store(t)
    \/ \E t \in Threads : ReturnResult(t)
    \/ NewParser
    \/ \E y \in YearBytes, m \in MonthBytes, d \in DayBytes, hm \in TimeBytes,
          n \in {3, 4} : BcdCall(y, m, d, hm, n)
    \/ \E lat \in LatValues, lon \in LonValues, n \in {7, 8} :
          LocationCall(lat, lon, n)
    \/ \E b \in DetectInputs \cup {None} : DetectCall(b)
    \/ \E file_path \in FilePaths, read \in FileReads,
          import \in {"loaded", "ImportError", "SyntaxError"},
          fault \in {"none", "decoder", "conversion"} :
          ParseFileCall(file_path, read, import, fault)

\* calls of parse one after the other, and direct calls of the readers
Spec == Init /\ [][Next]_vars

NextConc ==
    \/ \E t \in Threads, b \in ConcInputs : ConcCall(t, b)
    \/ \E t \in Threads : Detect(t)
    \/ \E t \in Threads : ParseV2(t)
    \/ \E t \in Threads : Header(t)
    \/ \E t \in Threads : Card(t)
    \/ \E t \in Threads : Vehicle(t)
    \/ \E t \in Threads : Activities(t)
    \/ \E t \in Threads : Events(t)
    \/ \E t \in Threads : Speeds(t)
    \/ \E t \in Threads : Store(t)
    \/ \E t \in Threads : ReturnResult(t)

\* two call sites calling parse on one instance without synchronisation
SpecConc == Init /\ [][NextConc]_vars

(***************************************************************************)
(* The loops of the decoders, iteration by iteration.  One call site runs  *)
(* one loop on the buffer raw_data; loc holds the loop's local variables.  *)
(***************************************************************************)

\* the buffers and patterns of the marker loops
ScanInputs ==
    { <<b, p>> : b \in V2Buffers \cup V2FieldBuffers
                       \cup { <<65, 58, 65, 58, 65, 67, 84, 58, 65, 67, 84, 58, 69, 86, 84, 58, 69, 58, 83, 80, 68, 58, 83, 80, 68, 58>> \o Fill(70, 0) },
                 p \in { ACT, <<65, 58>>, <<69, 86, 84, 58>>, <<69, 58>>, <<83, 80, 68, 58>> } }

\* the buffers of the record loop: the Standard EU files, and a file that
\* declares 65535 records and holds 1001
RecordInputs ==
    StandardBuffers \cup ActivityBuffers
        \cup { Header20(<<101, 83, 241, 0>>) \o <<5, 2, 0, 0, 255, 255>> \o Fill(8008, 0) }

\* a 16-byte window the binary scan accepts: code 10, a time, 16 minutes
Window == <<16, 0, 0, 0, 5, 0, 16, 0>> \o Fill(8, 0)

\* the buffers of the window loop: shorter than a window, longer than 5000
\* bytes, and 40 windows that are accepted
WindowInputs ==
    { Fill(10, 0), Fill(5100, 0), Flatten([k \in 1..40 |-> Window]) }

\* 'activities = []; pos = 0' of _parse_activities_by_pattern
EnterPatternLoop(b, pattern) ==
    /\ Quiet
    /\ raw_data' = b
    /\ pc' = [pc EXCEPT ![1] = "pattern_loop"]
    /\ loc' = [loc EXCEPT ![1] = [pattern |-> pattern, pos |-> 0, raised |-> FALSE]]
    /\ prim' = NoPrim
    /\ UNCHANGED <<web, parsed_data, arg, last>>

\* 'pos = 0' of _parse_v2_events and of _parse_v2_speeds, for one pattern;
\* the blocks are 30 and 20 bytes long
EnterMarkerLoop(b, pattern, at, size) ==
    /\ Quiet
    /\ raw_data' = b
    /\ pc' = [pc EXCEPT ![1] = at]
    /\ loc' = [loc EXCEPT ![1] = [pattern |-> pattern, pos |-> 0, size |-> size]]
    /\ prim' = NoPrim
    /\ UNCHANGED <<web, parsed_data, arg, last>>

\* the indexes of raw_data that the loop body reads for the record at
\* offset: _parse_timestamp_bcd(offset), raw_data[offset + 4], the slice
\* [offset + 5:offset + 7] and _parse_location(offset + 7), each under the
\* condition the code puts before it
RecordReads(raw, offset) ==
    (IF offset + 4 > Len(raw) THEN {} ELSE offset..(offset + 3))
        \cup (IF offset + 4 < Len(raw) THEN {offset + 4} ELSE {})
        \cup (IF offset + 7 <= Len(raw) THEN {offset + 5, offset + 6} ELSE {})
        \cup (IF offset + 15 <= Len(raw) /\ ~ (offset + 7 + 8 > Len(raw))
              THEN (offset + 7)..(offset + 14) ELSE {})

\* _parse_activities up to its loop: the section, the declared count;
\* reads holds the indexes the last iteration read
EnterRecordLoop(b) ==
    /\ Quiet
    /\ ~ Falsy(_find_section(b, <<5, 2>>))
    /\ _find_section(b, <<5, 2>>) + 6 <= Len(b)
    /\ raw_data' = b
    /\ pc' = [pc EXCEPT ![1] = "record_loop"]
    /\ loc' = [loc EXCEPT ![1] =
                  [offset |-> _find_section(b, <<5, 2>>) + 6,
                   i |-> 0,
                   activities |-> <<>>,
                   reads |-> {},
                   n |-> Min2(unpack_H(Slice(b, _find_section(b, <<5, 2>>) + 4,
                                             _find_section(b, <<5, 2>>) + 6)), 1000)]]
    /\ prim' = NoPrim
    /\ UNCHANGED <<web, parsed_data, arg, last>>

\* the offsets of the windows of the loop in which an activity is found
WindowsHeld(b, stop) ==
    { i \in 0..(stop - 1) : i % 16 = 0 /\ BinaryBlock(Slice(b, i, i + 16)) # NoneDict }

\* 'activities = []; block_size = 16' of _parse_v2_binary_activities; the
\* buffer does not change while the loop runs, so that what each window
\* holds is fixed when the loop starts
EnterWindowLoop(b) ==
    /\ Quiet
    /\ raw_data' = b
    /\ pc' = [pc EXCEPT ![1] = "window_loop"]
    /\ loc' = [loc EXCEPT ![1] =
                  [i |-> 0, stop |-> Min2(Len(b) - 16, 5000), found |-> 0,
                   held |-> WindowsHeld(b, Min2(Len(b) - 16, 5000))]]
    /\ prim' = NoPrim
    /\ UNCHANGED <<web, parsed_data, arg, last>>

\* the loop is left
ExitLoop ==
    /\ pc' = [pc EXCEPT ![1] = "idle"]
    /\ loc' = [loc EXCEPT ![1] = EmptyDict]
    /\ UNCHANGED <<web, raw_data, parsed_data, arg, last, prim>>

\* the position the search goes on from when the handler of the loop body
\* has run and leaves pos where raw_data.find put it: 'continue' alone
NextSearchStuck(at, pattern, raised) ==
    IF raised THEN at ELSE at + (IF pattern = ACT THEN 50 ELSE 60)

\* the position the search goes on from: 'pos += block_size', or
\* 'pos += len(pattern)' in the handler of an exception of the loop body
NextSearch(at, pattern, raised) ==
    IF raised THEN at + Len(pattern) ELSE at + (IF pattern = ACT THEN 50 ELSE 60)

\* one iteration of the 'while True' loop of _parse_activities_by_pattern;
\* raised: an exception is raised inside the try block of the loop body
PatternStep(raised) ==
    /\ pc[1] = "pattern_loop"
    /\ LET at == find(raw_data, loc[1].pattern, loc[1].pos)
       IN  IF at = -1 THEN ExitLoop
           ELSE /\ loc' = [loc EXCEPT ![1] =
                              [pattern |-> loc[1].pattern,
                               pos |-> NextSearch(at, loc[1].pattern, raised),
                               raised |-> raised]]
                /\ UNCHANGED <<web, raw_data, parsed_data, pc, arg, last, prim>>

\* one iteration of the 'while True' loop of _parse_v2_events or of
\* _parse_v2_speeds; an exception leaves the loop for the handler of the method
MarkerStep(at, raised) ==
    /\ pc[1] = at
    /\ LET found == find(raw_data, loc[1].pattern, loc[1].pos)
       IN  IF found = -1 \/ raised THEN ExitLoop
           ELSE /\ loc' = [loc EXCEPT ![1].pos = found + loc[1].size]
                /\ UNCHANGED <<web, raw_data, parsed_data, pc, arg, last, prim>>

\* 'return activities' of _parse_activities when its loop has ended by
\* itself: prim holds the call and the list
ReturnActivities ==
    /\ pc' = [pc EXCEPT ![1] = "idle"]
    /\ loc' = [loc EXCEPT ![1] = EmptyDict]
    /\ prim' = [fn |-> "_parse_activities", inp |-> raw_data,
                out |-> Return(loc[1].activities)]
    /\ UNCHANGED <<web, raw_data, parsed_data, arg, last>>

\* the loop without its 'break': a record that passes the end of the
\* buffer is decoded as well
RecordStepWithoutBreak(raised) ==
    /\ pc[1] = "record_loop"
    /\ IF raised THEN ExitLoop
       ELSE IF loc[1].i >= loc[1].n THEN ReturnActivities
       ELSE /\ loc' = [loc EXCEPT ![1].offset = @ + 8, ![1].i = @ + 1,
                                  ![1].activities =
                                      Append(@, ActivityRecord(raw_data, loc[1].offset)),
                                  ![1].reads = RecordReads(raw_data, loc[1].offset)]
            /\ UNCHANGED <<web, raw_data, parsed_data, pc, arg, last, prim>>

\* one iteration of 'for i in range(min(record_count, 1000))'
RecordStep(raised) ==
    /\ pc[1] = "record_loop"
    /\ IF raised THEN ExitLoop
       ELSE IF loc[1].i >= loc[1].n \/ loc[1].offset + 8 > Len(raw_data)
       THEN ReturnActivities
       ELSE /\ loc' = [loc EXCEPT ![1].offset = @ + 8, ![1].i = @ + 1,
                                  ![1].activities =
                                      Append(@, ActivityRecord(raw_data, loc[1].offset)),
                                  ![1].reads = RecordReads(raw_data, loc[1].offset)]
            /\ UNCHANGED <<web, raw_data, parsed_data, pc, arg, last, prim>>

\* one iteration of 'for i in range(0, min(len(raw_data) - 16, 5000), 16)'
WindowStep ==
    /\ pc[1] = "window_loop"
    /\ IF loc[1].i >= loc[1].stop THEN ExitLoop
       ELSE LET found == loc[1].found + (IF loc[1].i \in loc[1].held THEN 1 ELSE 0)
            IN  IF found >= 30 THEN ExitLoop
                ELSE /\ loc' = [loc EXCEPT ![1].i = @ + 16, ![1].found = found]
                     /\ UNCHANGED <<web, raw_data, parsed_data, pc, arg, last, prim>>

\* an iteration of a running loop
LoopStep ==
    \/ \E raised \in BOOLEAN : PatternStep(raised)
    \/ \E raised \in BOOLEAN : MarkerStep("event_loop", raised)
    \/ \E raised \in BOOLEAN : MarkerStep("speed_loop", raised)
    \/ \E raised \in BOOLEAN : RecordStep(raised)
    \/ WindowStep

NextLoops ==
    \/ \E s \in ScanInputs : EnterPatternLoop(s[1], s[2])
    \/ \E s \in ScanInputs : EnterMarkerLoop(s[1], s[2], "event_loop", 30)
    \/ \E s \in ScanInputs : EnterMarkerLoop(s[1], s[2], "speed_loop", 20)
    \/ \E b \in RecordInputs : EnterRecordLoop(b)
    \/ \E b \in WindowInputs : EnterWindowLoop(b)
    \/ LoopStep

\* the loops of the decoders; a loop that has started goes on running
SpecLoops == Init /\ [][NextLoops]_vars /\ WF_vars(LoopStep)

(***************************************************************************)
(* The readers of the Smart Tacho V2 decoder, iteration by iteration: the  *)
(* call site runs one reader on raw_data, loc holds its local variables,   *)
(* and prim the call and its result once the reader has returned.          *)
(***************************************************************************)

\* a 60-byte ACTIVITY: block of code 20 and 30 minutes, and a 60-byte A:
\* block of code 50 and 20 minutes
ActivityBlock == Pad(<<65, 67, 84, 73, 86, 73, 84, 89, 58, 101, 83, 241, 0, 32, 0, 30>>, 60)
ABlock == Pad(<<65, 58, 101, 83, 241, 0, 80, 0, 20>>, 60)

\* buffers for _parse_v2_activities: 51 ACT: blocks; 40 windows the binary
\* scan accepts; an ACT: block of an unmapped code before an ACTIVITY:
\* block of a mapped one; an ACTIVITY: block and an A: block; an ACT: block
\* that reaches the end of the buffer, behind a window; two windows of
\* which the second is an activity
V2ActivityInputs ==
    V2Buffers \cup V2FieldBuffers
        \cup { Flatten([k \in 1..51 |-> ActBlock(16, 90)]) \o <<0>>,
               Flatten([k \in 1..40 |-> Window]),
               ActBlock(7, 45) \o ActivityBlock \o <<0>>,
               Fill(4, 0) \o ActivityBlock \o ABlock \o <<0>>,
               Window \o Fill(16, 0) \o ActBlock(16, 90),
               Fill(16, 0) \o Window }

\* a 30-byte event block: the marker, a time, the type and the code
EventBlock(marker, type, code) ==
    Pad(marker \o <<101, 83, 241, 0>> \o <<type, code>>, 30)

\* buffers for _parse_v2_events: 31 EVT: blocks; an EVENT: block before an
\* E: block; an E: block before an EVT: block that reaches the end
V2EventInputs ==
    V2FieldBuffers
        \cup { Flatten([k \in 1..31 |-> EventBlock(event_patterns[1], 1, k)]) \o <<0>>,
               EventBlock(event_patterns[2], 3, 0) \o EventBlock(event_patterns[3], 4, 0)
                   \o <<0>>,
               EventBlock(event_patterns[3], 5, 2) \o EventBlock(event_patterns[1], 1, 1) }

\* a 20-byte speed block: the marker, a time, the speed and the rpm
SpeedSample(marker, speed_kmh) ==
    Pad(marker \o <<0, 0, 0, 60>> \o <<speed_kmh \div 256, speed_kmh % 256>> \o <<5, 220>>, 20)

\* buffers for _parse_v2_speeds: 101 SPD: samples; an SPD: sample of 200
\* km/h before a VEL: sample of 80; SPD: samples of 199 and 250 before a
\* SPEED: sample of 50
V2SpeedInputs ==
    V2FieldBuffers
        \cup { Flatten([k \in 1..101 |-> SpeedSample(speed_patterns[1], k)]) \o <<0>>,
               SpeedSample(speed_patterns[1], 200) \o SpeedSample(speed_patterns[3], 80)
                   \o <<0>>,
               SpeedSample(speed_patterns[1], 199) \o SpeedSample(speed_patterns[1], 250)
                   \o SpeedSample(speed_patterns[2], 50) \o <<0>> }

\* a reader is entered at the pc at with the locals locals
EnterReader(b, at, locals) ==
    /\ Quiet
    /\ raw_data' = b
    /\ pc' = [pc EXCEPT ![1] = at]
    /\ loc' = [loc EXCEPT ![1] = locals]
    /\ prim' = NoPrim
    /\ UNCHANGED <<web, parsed_data, arg, last>>

\* a reader returns out; prim keeps what the reader had found: the index
\* of the marker it used (0: none), the candidates, and the candidates it
\* had dropped on the way
ReturnReader(fn, out, marker, candidates, dropped) ==
    /\ pc' = [pc EXCEPT ![1] = "idle"]
    /\ loc' = [loc EXCEPT ![1] = EmptyDict]
    /\ prim' = [fn |-> fn, inp |-> raw_data, out |-> Return(out),
                marker |-> marker, candidates |-> candidates, dropped |-> dropped]
    /\ UNCHANGED <<web, raw_data, parsed_data, arg, last>>

\* the locals change, the reader goes on
GoOn(locals) ==
    /\ loc' = [loc EXCEPT ![1] = locals]
    /\ UNCHANGED <<web, raw_data, parsed_data, pc, arg, last, prim>>

\* 'activities = []' of _parse_v2_activities and the first pattern
EnterV2Activities(b) ==
    EnterReader(b, "v2_markers", [k |-> 1, pos |-> 0, activities |-> <<>>])

\* 'activities = activities[:50]' and the validation of _parse_v2_activities
ReturnV2Activities(marker, activities) ==
    ReturnReader("_parse_v2_activities",
                 SelectSeq(Slice(activities, 0, 50), _validate_v2_activity),
                 marker, activities, <<>>)

\* one iteration of the 'while True' loop of _parse_activities_by_pattern
\* for the k-th marker; when the search fails the loop of the markers goes
\* on: 'if activities_from_pattern: ... break', the next marker, or the
\* binary scan after the last one
V2MarkerStep ==
    /\ pc[1] = "v2_markers"
    /\ LET pattern == activity_patterns[loc[1].k]
           block_size == IF pattern = ACT THEN 50 ELSE 60
           at == find(raw_data, pattern, loc[1].pos)
       IN  IF at # -1
           THEN GoOn([k |-> loc[1].k, pos |-> at + block_size,
                      activities |->
                          IF at + block_size < Len(raw_data)
                          THEN KeepActivity(loc[1].activities,
                                   _parse_single_v2_activity(
                                       Slice(raw_data, at, at + block_size), pattern))
                          ELSE loc[1].activities])
           ELSE IF loc[1].activities # <<>>
           THEN ReturnV2Activities(loc[1].k, loc[1].activities)
           ELSE IF loc[1].k < Len(activity_patterns)
           THEN GoOn([k |-> loc[1].k + 1, pos |-> 0, activities |-> <<>>])
           ELSE /\ pc' = [pc EXCEPT ![1] = "v2_windows"]
                /\ loc' = [loc EXCEPT ![1] =
                              [i |-> 0, stop |-> Min2(Len(raw_data) - 16, 5000),
                               activities |-> <<>>]]
                /\ UNCHANGED <<web, raw_data, parsed_data, arg, last, prim>>

\* one iteration of 'for i in range(0, min(len(raw_data) - 16, 5000), 16)'
\* of _parse_v2_binary_activities, with its 'break' at 30 activities
V2WindowStep ==
    /\ pc[1] = "v2_windows"
    /\ IF loc[1].i >= loc[1].stop
       THEN ReturnV2Activities(0, loc[1].activities)
       ELSE LET activities ==
                    AppendActivity(loc[1].activities,
                                   BinaryBlock(Slice(raw_data, loc[1].i, loc[1].i + 16)))
            IN  IF Len(activities) >= 30
                THEN ReturnV2Activities(0, activities)
                ELSE GoOn([i |-> loc[1].i + 16, stop |-> loc[1].stop,
                           activities |-> activities])

\* 'events = []' of _parse_v2_events, 'speeds = []' of _parse_v2_speeds,
\* and the first pattern
EnterV2Events(b) ==
    EnterReader(b, "v2_events", [k |-> 1, pos |-> 0, found |-> <<>>, dropped |-> <<>>])
EnterV2Speeds(b) ==
    EnterReader(b, "v2_speeds", [k |-> 1, pos |-> 0, found |-> <<>>, dropped |-> <<>>])

\* the candidates that were not appended: those of before and not of after
Dropped(dropped, before, after, candidate) ==
    IF after = before THEN Append(dropped, candidate) ELSE dropped

\* one iteration of the 'while True' loop of _parse_v2_events for the k-th
\* pattern; when the search fails: 'if events: break', else the next
\* pattern, and 'return events[:30]' after the loop of the patterns
V2EventStep ==
    /\ pc[1] = "v2_events"
    /\ LET pattern == event_patterns[loc[1].k]
           at == find(raw_data, pattern, loc[1].pos)
           event == EventOf(Slice(raw_data, at, at + 30), pattern)
       IN  IF at # -1
           THEN IF at + 30 < Len(raw_data)
                THEN GoOn([k |-> loc[1].k, pos |-> at + 30,
                           found |-> KeepEvent(loc[1].found, event),
                           dropped |-> Dropped(loc[1].dropped, loc[1].found,
                                               KeepEvent(loc[1].found, event), event)])
                ELSE GoOn([loc[1] EXCEPT !.pos = at + 30])
           ELSE IF loc[1].found # <<>> \/ loc[1].k = Len(event_patterns)
           THEN ReturnReader("_parse_v2_events", Slice(loc[1].found, 0, 30),
                             IF loc[1].found # <<>> THEN loc[1].k ELSE 0,
                             loc[1].found, loc[1].dropped)
           ELSE GoOn([loc[1] EXCEPT !.k = @ + 1, !.pos = 0])

\* one iteration of the 'while True' loop of _parse_v2_speeds for the k-th
\* pattern; when the search fails: 'if speeds: break', else the next
\* pattern, and 'return speeds[:100]' after the loop of the patterns
V2SpeedStep ==
    /\ pc[1] = "v2_speeds"
    /\ LET pattern == speed_patterns[loc[1].k]
           at == find(raw_data, pattern, loc[1].pos)
           speed_block == Slice(raw_data, at, at + 20)
           speeds == SpeedBlock(speed_block, Len(pattern), loc[1].found)
       IN  IF at # -1
           THEN IF at + 20 < Len(raw_data)
                THEN GoOn([k |-> loc[1].k, pos |-> at + 20,
                           found |-> speeds,
                           dropped |-> Dropped(loc[1].dropped, loc[1].found, speeds,
                                               SpeedOf(speed_block, Len(pattern)))])
                ELSE GoOn([loc[1] EXCEPT !.pos = at + 20])
           ELSE IF loc[1].found # <<>> \/ loc[1].k = Len(speed_patterns)
           THEN ReturnReader("_parse_v2_speeds", Slice(loc[1].found, 0, 100),
                             IF loc[1].found # <<>> THEN loc[1].k ELSE 0,
                             loc[1].found, loc[1].dropped)
           ELSE GoOn([loc[1] EXCEPT !.k = @ + 1, !.pos = 0])

\* the bytes of the timestamps: those of 946684800 (38 6d 43 80) and the
\* ends of the range of a byte
TimestampBytes == {0, 56, 67, 109, 128, 255}

\* buffers for _parse_v2_timestamp: every four bytes of TimestampBytes;
\* 946684801, 2147483647 and its neighbours; four bytes that are in range
\* read from either end; a buffer of three bytes and one of five
V2TimestampInputs ==
    { <<a, b, c, d>> : a \in TimestampBytes, b \in TimestampBytes,
                       c \in TimestampBytes, d \in TimestampBytes }
        \cup { <<56, 109, 67, 129>>, <<127, 255, 255, 254>>, <<127, 255, 255, 255>>,
               <<0, 0, 0, 64>>, <<56, 109, 67>>, <<0, 0, 0, 64, 255>> }

\* a call of _parse_v2_timestamp
V2TimestampCall(data) ==
    Direct("_parse_v2_timestamp", data, data, _parse_v2_timestamp(data))

NextReaders ==
    \/ \E b \in V2ActivityInputs : EnterV2Activities(b)
    \/ \E b \in V2EventInputs : EnterV2Events(b)
    \/ \E b \in V2SpeedInputs : EnterV2Speeds(b)
    \/ V2MarkerStep
    \/ V2WindowStep
    \/ V2EventStep
    \/ V2SpeedStep
    \/ \E data \in V2TimestampInputs : V2TimestampCall(data)

\* the readers of the Smart Tacho V2 decoder, one call after the other
SpecReaders == Init /\ [][NextReaders]_vars

(***************************************************************************)
(* The web application of app.py: the handler of /upload and the threads   *)
(* of process_files_background, which share the global processing_status.  *)
(* A file is named by its file name; secure_filename leaves the names of   *)
(* the requests below as they are, and UPLOAD_FOLDER is left out of the    *)
(* paths.  What parse_ddd_file, the date filter, file.save, os.remove and  *)
(* generate_excel_report do with a file is an input of the step.           *)
(***************************************************************************)

\* the file names a.ddd, B.DDD and notes.txt, and the suffix .ddd
FileA == <<97, 46, 100, 100, 100>>
FileB == <<66, 46, 68, 68, 68>>
FileNotes == <<110, 111, 116, 101, 115, 46, 116, 120, 116>>
DotDDD == <<46, 100, 100, 100>>

\* str.endswith
endswith(str, suffix) ==
    Len(str) >= Len(suffix) /\ SubSeq(str, Len(str) - Len(suffix) + 1, Len(str)) = suffix

\* 'if file and file.filename and file.filename.strip()'
IsValidFile(filename) == filename # <<>> /\ strip(filename) # <<>>

\* 'if filename_lower.endswith('.ddd')'
IsDDDFile(filename) == endswith(lower(filename), DotDDD)

\* the requests to /upload: the names of the files sent, and whether
\* start_date and end_date are empty or dates strptime accepts
UploadRequests ==
    { [names |-> names, dates_ok |-> dates_ok] :
          names \in { <<>>, << <<>> >>, <<FileNotes>>, <<FileA>>, <<FileNotes, FileB>>,
                      <<FileA, FileB>> },
          dates_ok \in BOOLEAN }

\* the threads of process_files_background that were started and have not
\* ended, and the requests that are being answered
Alive == { r \in Runs : runs[r].at # "idle" }
UnderWay == { q \in Requests : handlers[q].at # "idle" }

\* the handler answers with the status code and is done; the answer is not
\* kept
Answer(q, code) ==
    /\ code \in {200, 400, 409, 500}
    /\ handlers' = [handlers EXCEPT ![q] = NoRequest]

\* upload_files up to the parsing of the dates: 409 while the status is
\* active, 400 without a file, without a named file, without a .ddd file
\* or with a date strptime rejects
UploadCheck(q, request) ==
    /\ handlers[q].at = "idle"
    /\ \A o \in Requests : handlers[o].at = "idle" => q <= o
    /\ Cardinality(Alive) + Cardinality(UnderWay) < MaxRuns
    /\ LET valid_files == SelectSeq(request.names, IsValidFile)
           ddd_files == SelectSeq(valid_files, IsDDDFile)
       IN  IF processing_status.active THEN Answer(q, 409)
           ELSE IF request.names = <<>> \/ valid_files = <<>> \/ ddd_files = <<>>
                   \/ ~ request.dates_ok
           THEN Answer(q, 400)
           ELSE handlers' = [handlers EXCEPT ![q] =
                                [at |-> "save", files |-> ddd_files]]
    /\ UNCHANGED <<decoder, processing_status, runs, disk>>

\* the files of ddd_files whose index is not in failed
Saved(ddd_files, failed) ==
    LET Kept(k) == k \notin failed
        Indices == SelectSeq([k \in 1..Len(ddd_files) |-> k], Kept)
    IN  [k \in 1..Len(Indices) |-> ddd_files[Indices[k]]]

\* the set of the elements of a list
Range(list) == { list[k] : k \in 1..Len(list) }

\* a thread of process_files_background just started on file_paths
Started(file_paths) == [NoRun EXCEPT !.at = "begin", !.file_paths = file_paths]

\* the rest of upload_files: the files are saved, those of failed are not;
\* 500 when none was saved, else Thread(...).start() and the answer 200
UploadStart(q, failed) ==
    /\ handlers[q].at = "save"
    /\ failed \subseteq 1..Len(handlers[q].files)
    /\ LET uploaded_files == Saved(handlers[q].files, failed)
           r == CHOOSE r \in Runs : r \notin Alive /\ \A o \in Runs \ Alive : r <= o
       IN  /\ disk' = disk \cup Range(uploaded_files)
           /\ IF uploaded_files = <<>>
              THEN Answer(q, 500) /\ UNCHANGED runs
              ELSE /\ Answer(q, 200)
                   /\ runs' = [runs EXCEPT ![r] = Started(uploaded_files)]
    /\ UNCHANGED <<decoder, processing_status>>

\* the value of loaded of a thread that read processed_files of a dict
\* which the global no longer names
Stale == -2

\* 'processing_status = {...}' at the start of process_files_background:
\* the global names a new dict, and what another thread is about to store
\* into the old one is lost with it
RunBegin(r) ==
    /\ runs[r].at = "begin"
    /\ processing_status' =
           [active |-> TRUE, total_files |-> Len(runs[r].file_paths),
            processed_files |-> 0, errors |-> {}, output_file |-> "None"]
    /\ runs' = [o \in Runs |->
                   IF o = r THEN [runs[r] EXCEPT !.at = "file", !.index = 1]
                   ELSE IF runs[o].loaded # -1 THEN [runs[o] EXCEPT !.loaded = Stale]
                   ELSE runs[o]]
    /\ UNCHANGED <<decoder, handlers, disk>>

\* what the body of the loop does with a file: the workshift of
\* parse_ddd_file is included or filtered out by the dates, or the parsing
\* raises and the fallback workshift is included, or not
FileOutcomes == {"included", "filtered", "fallback", "failed"}

\* the loop 'for file_path in file_paths' up to the count: the workshift
\* and the error of the file; after the last file, on to the
\* report
RunFile(r, outcome) ==
    /\ runs[r].at = "file"
    /\ outcome \in FileOutcomes
    /\ IF runs[r].index > Len(runs[r].file_paths)
       THEN /\ runs' = [runs EXCEPT ![r].at = "report"]
            /\ UNCHANGED processing_status
       ELSE /\ processing_status' =
                   [processing_status EXCEPT
                        !.errors = IF outcome \in {"fallback", "failed"}
                                   THEN @ \cup {"file"} ELSE @]
            /\ runs' = [runs EXCEPT ![r].at = "load",
                                    ![r].workshifts =
                                        IF outcome \in {"included", "fallback"}
                                        THEN @ + 1 ELSE @]
    /\ UNCHANGED <<decoder, handlers, disk>>

\* "processing_status['processed_files'] += 1", the reading
RunLoad(r) ==
    /\ runs[r].at = "load"
    /\ runs' = [runs EXCEPT ![r].at = "store",
                            ![r].loaded = processing_status.processed_files]
    /\ UNCHANGED <<decoder, processing_status, handlers, disk>>

\* "processing_status['processed_files'] += 1", the writing, into the dict
\* that was read
RunStore(r) ==
    /\ runs[r].at = "store"
    /\ processing_status' =
           IF runs[r].loaded = Stale THEN processing_status
           ELSE [processing_status EXCEPT !.processed_files = runs[r].loaded + 1]
    /\ runs' = [runs EXCEPT ![r].at = "file", ![r].index = @ + 1, ![r].loaded = -1]
    /\ UNCHANGED <<decoder, handlers, disk>>

\* the report: generate_excel_report on the workshifts, or on an empty
\* workshift after the error 'Brak workshiftow'; when it raises, the
\* handler of the critical error, else output_file
RunReport(r, raised) ==
    /\ runs[r].at = "report"
    /\ LET errors == IF runs[r].workshifts > 0 THEN processing_status.errors
                     ELSE processing_status.errors \cup {"no workshifts"}
       IN  processing_status' =
               IF raised
               THEN [processing_status EXCEPT !.errors = errors \cup {"critical"}]
               ELSE [processing_status EXCEPT
                         !.errors = errors,
                         !.output_file = IF runs[r].workshifts > 0
                                         THEN "workshifts" ELSE "empty_report"]
    /\ runs' = [runs EXCEPT ![r].at = "finally"]
    /\ UNCHANGED <<decoder, handlers, disk>>

\* the finally block without "processing_status['active'] = False"
RunFinallyLeavesActive(r) ==
    /\ runs[r].at = "finally"
    /\ runs' = [runs EXCEPT ![r].at = "cleanup"]
    /\ UNCHANGED <<decoder, processing_status, handlers, disk>>

\* "finally: processing_status['active'] = False"
RunFinally(r) ==
    /\ runs[r].at = "finally"
    /\ processing_status' = [processing_status EXCEPT !.active = FALSE]
    /\ runs' = [runs EXCEPT ![r].at = "cleanup"]
    /\ UNCHANGED <<decoder, handlers, disk>>

\* the loop of the finally block: os.remove for every path that exists;
\* the paths of kept are those whose os.remove raises; the thread ends
RunCleanup(r, kept) ==
    /\ runs[r].at = "cleanup"
    /\ kept \subseteq Range(runs[r].file_paths) \cap disk
    /\ Cardinality(kept) <= 1
    /\ disk' = (disk \ Range(runs[r].file_paths)) \cup kept
    /\ runs' = [runs EXCEPT ![r] = NoRun]
    /\ UNCHANGED <<decoder, processing_status, handlers>>

\* a step of the thread r of process_files_background
RunStep(r) ==
    \/ RunBegin(r)
    \/ \E outcome \in FileOutcomes : RunFile(r, outcome)
    \/ RunLoad(r)
    \/ RunStore(r)
    \/ \E raised \in BOOLEAN : RunReport(r, raised)
    \/ RunFinally(r)
    \/ \E kept \in SUBSET {FileA, FileB} : RunCleanup(r, kept)

NextWeb ==
    \/ \E q \in Requests, request \in UploadRequests : UploadCheck(q, request)
    \/ \E q \in Requests, failed \in SUBSET (1..2) : UploadStart(q, failed)
    \/ \E r \in Runs : RunBegin(r)
    \/ \E r \in Runs, outcome \in FileOutcomes : RunFile(r, outcome)
    \/ \E r \in Runs : RunLoad(r)
    \/ \E r \in Runs : RunStore(r)
    \/ \E r \in Runs, raised \in BOOLEAN : RunReport(r, raised)
    \/ \E r \in Runs : RunFinally(r)
    \/ \E r \in Runs, kept \in SUBSET {FileA, FileB} : RunCleanup(r, kept)

\* the web application under every interleaving of its threads
SpecWeb == Init /\ [][NextWeb]_vars

\* the web application where a thread is started only when no other is
\* alive
SpecWebOneRun == Init /\ [][NextWeb /\ Cardinality(Alive') <= 1]_vars

\* the same, where every thread of process_files_background that was
\* started goes on running: the operating system schedules it, and
\* parse_ddd_file, generate_excel_report and os.remove return or raise
SpecWebFair == SpecWeb /\ \A r \in Runs : WF_vars(RunStep(r))

(***************************************************************************)
(* Properties of the calls of parse.                                       *)
(***************************************************************************)

\* the last call of parse returned a dict
Returned == last.called /\ ~ last.out.exc

\* the groups every result holds
GroupKeys == {"format", "header", "vehicle_data", "activities", "events", "speeds"}

\* the result is the one of the Standard EU branch
IsStandard(result) == "card_data" \in DOMAIN result

\* C1: every call of parse, whatever its buffer (the empty buffer and the
\* buffers shorter than 20 bytes included) and whichever path it takes,
\* returns a result mapping and raises no exception.
C1_ParseNeverRaises ==
    last.called => (~ last.out.exc /\ "format" \in DOMAIN last.out.val)

\* C1, its case: a call on the empty buffer has returned a dict on the
\* Standard EU path, and a call on a buffer shorter than 20 bytes is about
\* to return one on the Smart Tacho V2 path.
C1_BothPathsReturn ==
    /\ Returned
    /\ last.buf = <<>>
    /\ IsStandard(last.out.val)
    /\ pc[1] = "return"
    /\ Len(arg[1]) < 20
    /\ parsed_data = parse_smart_tacho_v2(arg[1]).val
    /\ parsed_data.format = "Smart Tacho V2"

\* C2, as stated: on the Standard EU path a group whose tag occurs nowhere
\* in the buffer is its marker or an empty sequence, and nothing is decoded
\* for it from other bytes of the buffer.
C2_AbsentTagGivesMarker ==
    (Returned /\ IsStandard(last.out.val)) =>
        LET result == last.out.val
            buf == last.buf
        IN  /\ ~ contains(buf, <<5, 1>>) => "error" \in DOMAIN result.card_data
            /\ ~ contains(buf, <<5, 5>>) => "error" \in DOMAIN result.vehicle_data
            /\ ~ contains(buf, <<5, 2>>) =>
                   \A i \in 1..Len(result.activities) :
                       "error" \in DOMAIN result.activities[i]
            /\ ~ contains(buf, <<5, 3>>) =>
                   \A i \in 1..Len(result.events) :
                       "info" \in DOMAIN result.events[i]
            /\ ~ contains(buf, <<5, 4>>) =>
                   \A i \in 1..Len(result.speeds) :
                       "info" \in DOMAIN result.speeds[i]

\* C3: the result of every call holds format, header, vehicle_data,
\* activities, events and speeds and exactly one of card_data and
\* driver_data: a group that fails gives its own error value and removes no
\* other group.
C3_AllGroupsPresent ==
    last.called =>
        /\ ~ last.out.exc
        /\ \/ DOMAIN last.out.val = GroupKeys \cup {"card_data"}
           \/ DOMAIN last.out.val = GroupKeys \cup {"driver_data"}

\* C3, its case: the activities group failed on a cut buffer and holds its
\* error value, while the header, the card and the vehicle were decoded.
C3_OneGroupFailed ==
    /\ Returned
    /\ IsStandard(last.out.val)
    /\ Len(last.out.val.activities) = 1
    /\ "error" \in DOMAIN last.out.val.activities[1]
    /\ "driver_name" \in DOMAIN last.out.val.card_data
    /\ "registration" \in DOMAIN last.out.val.vehicle_data
    /\ "file_type" \in DOMAIN last.out.val.header

\* the closed enumeration of activity types
ActivityTypeNames == {"driving", "work", "available", "rest", "break", "unknown"}

\* the raw code of the i-th record of the Standard EU activities group
RawCode(buf, i) == At(buf, _find_section(buf, <<5, 2>>) + 6 + 8 * (i - 1) + 4)

\* C4, as stated: every entry of the activities sequence of a result carries
\* an activity_type of the closed enumeration.
C4_EveryEntryTyped ==
    Returned =>
        \A i \in 1..Len(last.out.val.activities) :
            /\ "activity_type" \in DOMAIN last.out.val.activities[i]
            /\ last.out.val.activities[i].activity_type \in ActivityTypeNames

\* C4, amended: every entry of the activities sequence that is not the error
\* marker of the group carries an activity_type of the closed enumeration,
\* and a Standard EU record whose raw code is not in the code table has the
\* type unknown.
C4_DecodedEntryTyped ==
    Returned =>
        \A i \in 1..Len(last.out.val.activities) :
            LET entry == last.out.val.activities[i]
            IN  \/ DOMAIN entry = {"error"}
                \/ /\ "activity_type" \in DOMAIN entry
                   /\ entry.activity_type \in ActivityTypeNames
                   /\ (IsStandard(last.out.val)
                       /\ RawCode(last.buf, i) \notin {0, 1, 2, 3})
                          => entry.activity_type = "unknown"

\* C4, its case: a Standard EU record with the unmapped code 07 was decoded
\* to the type unknown, next to a record of a mapped code.
C4_UnmappedCodeDecoded ==
    /\ Returned
    /\ IsStandard(last.out.val)
    /\ Len(last.out.val.activities) = 2
    /\ RawCode(last.buf, 1) = 3
    /\ last.out.val.activities[1].activity_type = "driving"
    /\ RawCode(last.buf, 2) = 7
    /\ last.out.val.activities[2].activity_type = "unknown"

\* the str s is a date and time 'YYYY-MM-DD HH:MM:SS' of the calendar, of the
\* year 2000 or later
ValidStamp(s) ==
    /\ Len(s) = 19
    /\ \A k \in {1, 2, 3, 4, 6, 7, 9, 10, 12, 13, 15, 16, 18, 19} : s[k] \in Digits
    /\ Num(s, 0, 4) >= 2000
    /\ Num(s, 5, 2) \in 1..12
    /\ Num(s, 8, 2) \in 1..31
    /\ Num(s, 8, 2) <= DaysInMonth(Num(s, 0, 4), Num(s, 5, 2))
    /\ Num(s, 11, 2) \in 0..23
    /\ Num(s, 14, 2) \in 0..59

\* the field key of the dict d, when d has it, is N/A, the word 'calculated'
\* or a valid date and time
StampOk(d, key) ==
    key \in DOMAIN d => (d[key] = NA \/ d[key] = Calculated \/ ValidStamp(d[key]))

\* C5, as stated: every timestamp of a result that is not N/A (header
\* creation_time, card_expiry, activity start_time and end_time, event and
\* speed timestamps) is a valid date and time with year >= 2000, month
\* 1..12, day 1..31, hour 0..23 and minute 0..59.
C5_TimestampsValid ==
    Returned =>
        LET result == last.out.val
        IN  /\ StampOk(result.header, "creation_time")
            /\ IsStandard(result) => StampOk(result.card_data, "card_expiry")
            /\ \A i \in 1..Len(result.activities) :
                   /\ StampOk(result.activities[i], "start_time")
                   /\ StampOk(result.activities[i], "end_time")
            /\ \A i \in 1..Len(result.events) :
                   StampOk(result.events[i], "timestamp")
            /\ \A i \in 1..Len(result.speeds) :
                   StampOk(result.speeds[i], "timestamp")

\* the two nibbles of a byte
Nibbles(b) == {b \div 16, b % 16}

\* the number a BCD byte writes
BcdValue(b) == (b \div 16) * 10 + (b % 16)

\* the four bytes YY MM DD and hour/minute are not the encoding of a date
\* and time: a nibble above 9, or a month, day, hour or minute out of range
InvalidBcd(b) ==
    \/ \E k \in 1..4 : \E n \in Nibbles(b[k]) : n > 9
    \/ BcdValue(b[2]) \notin 1..12
    \/ BcdValue(b[3]) \notin 1..31
    \/ BcdValue(b[3]) > DaysInMonth(2000 + BcdValue(b[1]), BcdValue(b[2]))
    \/ (b[4] \div 16) \notin 0..23
    \/ (b[4] % 16) * 10 \notin 0..59

\* C6, as stated: _parse_timestamp_bcd answers N/A whenever one of its four
\* bytes is not a valid encoding of its field, and never turns such bytes
\* into a date.
C6_InvalidBcdIsNA ==
    (prim.fn = "_parse_timestamp_bcd" /\ Len(prim.inp) = 4 /\ InvalidBcd(prim.inp))
        => prim.out = NA

\* the micro-degrees written by a str '[-]d.dddddd'
Unfixed6(s) ==
    IF s[1] = 45
    THEN - (Num(s, 1, Len(s) - 8) * 1000000 + Num(s, Len(s) - 6, 6))
    ELSE Num(s, 0, Len(s) - 7) * 1000000 + Num(s, Len(s) - 6, 6)

\* the latitude and the longitude written by a str 'lat,lon'
LatOf(location) == Unfixed6(Slice(location, 0, find(location, <<44>>, 0)))
LonOf(location) ==
    Unfixed6(Slice(location, find(location, <<44>>, 0) + 1, Len(location)))

\* -90 <= lat <= 90 and -180 <= lon <= 180, in micro-degrees
InBounds(lat, lon) ==
    /\ -90000000 <= lat /\ lat <= 90000000
    /\ -180000000 <= lon /\ lon <= 180000000

\* C7: _parse_location answers a coordinate pair exactly when the two
\* values it is given lie within -90..90 and -180..180 degrees, the pair
\* then writes these values, and it answers N/A otherwise; so every location
\* of a result that is not N/A lies within the bounds.
C7_LocationWithinBounds ==
    /\ prim.fn = "_parse_location" =>
           IF prim.inp.n = 8 /\ InBounds(prim.inp.lat, prim.inp.lon)
           THEN /\ prim.out # NA
                /\ LatOf(prim.out) = prim.inp.lat
                /\ LonOf(prim.out) = prim.inp.lon
           ELSE prim.out = NA
    /\ Returned =>
           \A i \in 1..Len(last.out.val.activities) :
               LET entry == last.out.val.activities[i]
               IN  ("location" \in DOMAIN entry /\ entry.location # NA)
                       => InBounds(LatOf(entry.location), LonOf(entry.location))

\* C7, its case: the reader was given a latitude of 95 degrees with a
\* longitude within the bounds and answered N/A.
C7_Latitude95Rejected ==
    /\ prim.fn = "_parse_location"
    /\ prim.inp.n = 8
    /\ prim.inp.lat = 95000000
    /\ prim.inp.lon = 21012229
    /\ prim.out = NA

\* C8: parse is a function of its buffer: the result of every call is the
\* result of a call made alone on a new instance, whatever was parsed before
\* on the instance, and a call on the buffer of the call before it builds an
\* equal result.
C8_ParseDependsOnBufferOnly ==
    /\ (Quiet /\ last.called) => last.out = Return(ParseResult(last.buf))
    /\ \A t \in Threads :
           (pc[t] = "return" /\ Returned /\ arg[t] = last.buf)
               => parsed_data = last.out.val

\* C8, its case: after a call on a Standard EU buffer with two records
\* returned, a new instance was made, and a second call on the same buffer
\* has built an equal dict.
C8_SameBufferTwice ==
    /\ Returned
    /\ pc[1] = "store"
    /\ arg[1] = last.buf
    /\ parsed_data = EmptyDict
    /\ IsStandard(last.out.val)
    /\ Len(last.out.val.activities) = 2
    /\ loc[1] = last.out.val

\* the statements of parse that read self.raw_data
ReadsBuffer == {"header", "card", "vehicle", "activities", "events", "speeds"}

\* C9, as stated: calls of parse running concurrently on one instance each
\* return the result of a call made alone on their buffer, and the buffer
\* the Standard EU decoders read through self.raw_data is the buffer of
\* their own call.
C9_ConcurrentCallsIsolated ==
    /\ \A t \in Threads : pc[t] \in ReadsBuffer => raw_data = arg[t]
    /\ last.called => last.out = Return(ParseResult(last.buf))

\* C10, as stated: for a buffer shorter than 20 bytes parse raises nothing
\* and returns a result whose format is Unknown and whose header is the
\* error marker.
C10_ShortBufferIsUnknown ==
    (last.called /\ Len(last.buf) < 20) =>
        /\ ~ last.out.exc
        /\ last.out.val.format = "Unknown"
        /\ "error" \in DOMAIN last.out.val.header


\* the six format tags
FormatTags ==
    {"Standard EU", "Smart Tacho V2", "EFAS", "Stoneridge", "Siemens VDO", "Unknown"}

\* C11: detect_tacho_version answers one of the six format tags for every
\* buffer, no exception leaves it, and it answers Unknown when a statement
\* of it fails; so the format of every result of parse is one of the tags.
C11_DetectAnswersATag ==
    /\ prim.fn = "detect_tacho_version" =>
           /\ prim.out \in FormatTags
           /\ DetectBody(prim.inp).exc => prim.out = "Unknown"
    /\ Returned => last.out.val.format \in FormatTags

\* C11, its case: the method was called on a value whose first slice raises
\* and answered Unknown.
C11_FailureGivesUnknown ==
    /\ prim.fn = "detect_tacho_version"
    /\ DetectBody(prim.inp).exc
    /\ prim.out = "Unknown"

\* whether one of the nine vendor markers occurs, whatever the case of its
\* letters, in the first n bytes of the buffer
VendorMarkerIn(b, n) ==
    \E k \in 1..Len(smart_v2_markers) :
        contains(lower(Slice(b, 0, n)), smart_v2_markers[k])

\* the tag of the first of the six rules, in their order, whose condition
\* holds for the buffer, the third rule applying to buffers of every length
FirstRuleTag(b) ==
    IF VendorMarkerIn(b, 2000) THEN "Smart Tacho V2"
    ELSE IF contains(Slice(b, 0, 500), <<86, 68, 79>>)
            /\ contains(Slice(b, 0, 500), <<83, 109, 97, 114, 116>>) THEN "Smart Tacho V2"
    ELSE IF \/ Slice(b, 0, 4) = <<83, 84, 118, 50>>
            \/ Slice(b, 0, 3) = <<86, 68, 79>>
            \/ contains(Slice(b, 0, 20), <<83, 77, 65, 82, 84>>) THEN "Smart Tacho V2"
    ELSE IF Slice(b, 0, 3) = <<68, 68, 68>> THEN "Standard EU"
    ELSE IF contains(Slice(b, 0, 100), <<69, 70, 65, 83>>) THEN "EFAS"
    ELSE IF contains(Slice(b, 0, 200), <<83, 116, 111, 110, 101, 114, 105, 100, 103, 101>>) THEN "Stoneridge"
    ELSE IF contains(Slice(b, 0, 200), <<83, 105, 101, 109, 101, 110, 115, 32, 86, 68, 79>>) THEN "Siemens VDO"
    ELSE "Unknown"

\* C12, as stated: for buffers of every length detect_tacho_version answers
\* the tag of the first rule, in the order of the six rules, that holds.
C12_FirstRuleWins ==
    (prim.fn = "detect_tacho_version" /\ prim.inp # None)
        => prim.out = FirstRuleTag(prim.inp)


\* the offset of the first occurrence of the activities tag 05 02, or -1
TagOffset(buf) == find(buf, <<5, 2>>, 0)

\* the record count declared in the two bytes at offset 4 of the group
Declared(buf) == unpack_H(Slice(buf, TagOffset(buf) + 4, TagOffset(buf) + 6))

\* the buffer starts with DDD, and its activities tag is followed by a
\* declared count n <= 1000 and by n complete 8-byte records
WellFormedActivities(buf) ==
    /\ Slice(buf, 0, 3) = <<68, 68, 68>>
    /\ TagOffset(buf) > 0
    /\ TagOffset(buf) + 6 <= Len(buf)
    /\ Declared(buf) <= 1000
    /\ TagOffset(buf) + 6 + 8 * Declared(buf) <= Len(buf)

\* the code table of the Standard EU format
CodeTable(c) ==
    CASE c = 0 -> "break" [] c = 1 -> "available" [] c = 2 -> "work"
      [] c = 3 -> "driving" [] OTHER -> "unknown"

\* the result is Standard EU and its activities are the records of the
\* group of buf, in the order of the buffer, with the type of the code table
\* and the big-endian duration of each
ActivitiesAsDeclared(result, buf) ==
    /\ result.format = "Standard EU"
    /\ Len(result.activities) = Declared(buf)
    /\ \A i \in 1..Declared(buf) :
           LET at == TagOffset(buf) + 6 + 8 * (i - 1)
               entry == result.activities[i]
           IN  /\ DOMAIN entry = {"start_time", "activity_type", "duration", "location"}
               /\ entry.activity_type = CodeTable(At(buf, at + 4))
               /\ entry.duration = At(buf, at + 5) * 256 + At(buf, at + 6)

\* C13, as stated: for every buffer with the DDD prefix whose activities
\* tag introduces a group of n complete records, the result is Standard EU
\* and activities holds the n records with their types and durations.
C13_ActivitiesDecoded ==
    (Returned /\ WellFormedActivities(last.buf))
        => ActivitiesAsDeclared(last.out.val, last.buf)

\* none of the three Smart Tacho V2 rules of the detector holds for the buffer
NoSmartRule(buf) ==
    /\ ~ VendorMarkerIn(buf, 1000)
    /\ ~ (contains(Slice(buf, 0, 500), <<86, 68, 79>>)
          /\ contains(Slice(buf, 0, 500), <<83, 109, 97, 114, 116>>))
    /\ ~ (Len(buf) > 100 /\ contains(Slice(buf, 0, 20), <<83, 77, 65, 82, 84>>))

\* C13, amended: the same for the buffers with the DDD prefix on which no
\* Smart Tacho V2 rule of the detector holds, the group being the one at
\* the first occurrence of 05 02 with its count at offset 4 of the group.
C13_ActivitiesDecodedUnlessSmart ==
    (Returned /\ WellFormedActivities(last.buf) /\ NoSmartRule(last.buf))
        => ActivitiesAsDeclared(last.out.val, last.buf)

\* C13, its case: the file of the records (03, 90 minutes) and (00, 45
\* minutes) that ends with its last record was decoded to driving and
\* break, 90 and 45.
C13_DrivingThenBreak ==
    /\ Returned
    /\ last.buf = Header20(<<101, 83, 241, 0>>) \o ActivityGroup(2, TwoRecords)
    /\ last.out.val.format = "Standard EU"
    /\ Len(last.out.val.activities) = 2
    /\ last.out.val.activities[1].activity_type = "driving"
    /\ last.out.val.activities[1].duration = 90
    /\ last.out.val.activities[2].activity_type = "break"
    /\ last.out.val.activities[2].duration = 45


\* the buffer starts with DDD and ends after its activities tag and before
\* the end of the declared count: the count is missing or cut
CountCut(buf) ==
    /\ Slice(buf, 0, 3) = <<68, 68, 68>>
    /\ TagOffset(buf) > 0
    /\ Len(buf) < TagOffset(buf) + 6

\* C14: for a Standard EU buffer cut so that the record count after the
\* activities tag is incomplete, parse raises nothing, the activities group
\* is its marker or the empty sequence, and no activity record is produced.
C14_CutCountGivesMarker ==
    (last.called /\ CountCut(last.buf)) =>
        /\ ~ last.out.exc
        /\ last.out.val.format = "Standard EU"
        /\ \/ last.out.val.activities = <<>>
           \/ /\ Len(last.out.val.activities) = 1
              /\ DOMAIN last.out.val.activities[1] = {"error"}

\* C14, its case: a file cut after the first byte of the declared count was
\* parsed, and its activities group is the marker alone.
C14_CutInsideCount ==
    /\ Returned
    /\ last.buf = Header20(<<101, 83, 241, 0>>) \o <<5, 2, 0, 0, 0>>
    /\ CountCut(last.buf)
    /\ last.out.val.activities = <<[error |-> "Niepelne dane aktywnosci"]>>


\* the offset of the first ACT: marker of the buffer, or -1
ActOffset(buf) == find(buf, ACT, 0)

\* the buffer starts with VDO, holds SMART and exactly one ACT: marker,
\* whose 50-byte block lies inside the buffer and carries a code of the
\* Smart Tacho V2 table and a duration d with 0 < d <= 1440
OneActBlock(buf) ==
    /\ Slice(buf, 0, 3) = <<86, 68, 79>>
    /\ contains(buf, <<83, 77, 65, 82, 84>>)
    /\ ActOffset(buf) >= 0
    /\ find(buf, ACT, ActOffset(buf) + 1) = -1
    /\ ActOffset(buf) + 50 <= Len(buf)
    /\ At(buf, ActOffset(buf) + 12) \in {16, 32, 48, 64, 80}
    /\ At(buf, ActOffset(buf) + 13) * 256 + At(buf, ActOffset(buf) + 14) \in 1..1440

\* the code table of the Smart Tacho V2 format
V2CodeTable(c) ==
    CASE c = 16 -> "driving" [] c = 32 -> "work" [] c = 48 -> "available"
      [] c = 64 -> "break" [] c = 80 -> "rest" [] OTHER -> "unknown"

\* C15, as stated: for every such buffer, whatever its length and also when
\* it ends with the block, the result is Smart Tacho V2 and activities is
\* the one entry of the block, with the type of its code and its duration.
C15_OneActBlockDecoded ==
    (Returned /\ OneActBlock(last.buf)) =>
        /\ last.out.val.format = "Smart Tacho V2"
        /\ Len(last.out.val.activities) = 1
        /\ last.out.val.activities[1].activity_type
               = V2CodeTable(At(last.buf, ActOffset(last.buf) + 12))
        /\ last.out.val.activities[1].duration
               = At(last.buf, ActOffset(last.buf) + 13) * 256
                     + At(last.buf, ActOffset(last.buf) + 14)


\* the names of the loops
LoopNames == {"pattern_loop", "event_loop", "speed_loop", "record_loop", "window_loop"}

\* an iteration that stays in a marker loop moves the search position forward
SearchAdvances ==
    (pc[1] \in {"pattern_loop", "event_loop", "speed_loop"} /\ pc'[1] = pc[1])
        => loc'[1].pos > loc[1].pos

\* the record loop has made at most min(declared count, 1000) iterations,
\* and the window loop visits windows that start in the first 5000 bytes
LoopsBounded ==
    /\ pc[1] = "record_loop" =>
           /\ loc[1].i <= 1000
           /\ loc[1].i <= unpack_H(Slice(raw_data, _find_section(raw_data, <<5, 2>>) + 4,
                                         _find_section(raw_data, <<5, 2>>) + 6))
    /\ pc[1] = "window_loop" =>
           /\ loc[1].i % 16 = 0
           /\ loc[1].i < loc[1].stop => loc[1].i < 5000
           /\ loc[1].i <= 5008

\* C16: every loop of the decoders ends: each iteration of a marker loop
\* moves the search position forward, also when the loop body raised; the
\* record loop makes at most min(declared count, 1000) iterations; the
\* window loop visits only windows of the first 5000 bytes.
C16_LoopsTerminate ==
    /\ [][SearchAdvances]_vars
    /\ []LoopsBounded
    /\ \A name \in LoopNames : (pc[1] = name) ~> (pc[1] = "idle")

\* C16, its case: the loop body of _parse_activities_by_pattern raised at a
\* marker that is not the first of the buffer, and the search goes on
\* behind that marker.
C16_SearchGoesOnAfterException ==
    /\ pc[1] = "pattern_loop"
    /\ loc[1].raised
    /\ loc[1].pos > 50
    /\ MatchAt(raw_data, loc[1].pattern, loc[1].pos - Len(loc[1].pattern))


\* the buffer starts with DDD, no Smart Tacho V2 rule of the detector holds
\* for it, and the tag is followed, at offset 4 of its group, by a count of
\* at least one and by bytes of records
RecordsFollow(buf, tag) ==
    /\ Slice(buf, 0, 3) = <<68, 68, 68>>
    /\ NoSmartRule(buf)
    /\ find(buf, tag, 0) > 0
    /\ find(buf, tag, 0) + 6 < Len(buf)
    /\ unpack_H(Slice(buf, find(buf, tag, 0) + 4, find(buf, tag, 0) + 6)) >= 1

\* C17, as stated: when the events tag 05 03 of a Standard EU file is
\* followed by records the events group holds an entry for them, and when
\* the speed tag 05 04 is followed by samples the speeds group holds an
\* entry for them.
C17_EventsAndSpeedsDecoded ==
    /\ (Returned /\ RecordsFollow(last.buf, <<5, 3>>)) => Len(last.out.val.events) >= 1
    /\ (Returned /\ RecordsFollow(last.buf, <<5, 4>>)) => Len(last.out.val.speeds) >= 1


\* a call of parse_ddd_file has returned or has let an exception out
ParseFileCalled == prim.fn = "parse_ddd_file"

\* the file could not be read, the decoder module could not be loaded, the
\* decoder raised, or the conversion raised
CallFailed == prim.inp.read.exc \/ prim.inp.import # "loaded" \/ prim.inp.fault # "none"

\* the driver, the vehicle and the date that the name of each file gives, a
\* fixed default where it gives none
FromFilename ==
    (<<117, 112, 108, 111, 97, 100, 115, 47, 67, 95, 50, 48, 50, 53, 48, 53, 48, 50, 95, 48, 56, 53, 54, 95, 75, 95, 75, 117, 100, 114, 122, 121, 99, 107, 105, 95, 49, 55, 48, 48, 53, 49, 56, 48, 57, 53, 55, 54, 48, 48, 48, 50, 46, 68, 68, 68>>
         :> <<<<75, 117, 100, 114, 122, 121, 99, 107, 105>>, <<67, 95, 75>>, <<2025, 5, 2>>>>)
    @@ (<<106, 97, 110, 95, 107, 111, 119, 97, 108, 115, 107, 105, 95, 50, 48, 50, 53, 48, 50, 51, 48, 46, 100, 100, 100>>
         :> <<<<106, 97, 110, 32, 107, 111, 119, 97, 108, 115, 107, 105>>, <<86, 69, 72, 95, 106, 97, 110, 95, 107, 111, 119, 97, 108, 115>>, Now>>)
    @@ (<<120, 46, 68, 68, 68>>
         :> <<<<78, 105, 101, 122, 110, 97, 110, 121, 32, 107, 105, 101, 114, 111, 119, 99, 97>>, <<86, 69, 72, 95, 120, 46, 68, 68, 68>>, Now>>)
    @@ (<<114, 97, 112, 111, 114, 116, 32, 48, 50, 45, 48, 53, 45, 50, 48, 50, 53, 46, 100, 100, 100>>
         :> <<<<78, 105, 101, 122, 110, 97, 110, 121, 32, 107, 105, 101, 114, 111, 119, 99, 97>>, <<86, 69, 72, 95, 114, 97, 112, 111, 114, 116, 32, 48, 50, 45>>, <<2025, 5, 2>>>>)
    @@ (<<50, 48, 50, 53, 45, 48, 53, 45, 48, 50, 95, 87, 65, 49, 50, 51, 52, 53, 46, 68, 68, 68>>
         :> <<<<78, 105, 101, 122, 110, 97, 110, 121, 32, 107, 105, 101, 114, 111, 119, 99, 97>>, <<86, 69, 72, 95, 50, 48, 50, 53, 45, 48, 53, 45, 48, 50>>, <<2025, 5, 2>>>>)

\* the fields of a WorkShift
WorkShiftFields ==
    {"driver_name", "vehicle_id", "date", "activities",
     "total_driving_time", "total_work_time", "total_rest_time"}

\* C18: every call of parse_ddd_file returns a WorkShift and lets no exception
\* out; when the file cannot be read, the decoder module cannot be loaded,
\* the decoder raises or the conversion raises, the WorkShift is the fallback:
\* driver, vehicle and date from the filename or the defaults.
C18_AlwaysAWorkShift ==
    ParseFileCalled =>
        /\ ~ prim.out.exc
        /\ DOMAIN prim.out.val = WorkShiftFields
        /\ CallFailed =>
               /\ prim.out.val.driver_name = FromFilename[prim.inp.file_path][1]
               /\ prim.out.val.vehicle_id = FromFilename[prim.inp.file_path][2]
               /\ prim.out.val.date = FromFilename[prim.inp.file_path][3]
               /\ prim.out.val.activities = _generate_sample_activities

\* C18, its case: the file of a path in the format of the source could not
\* be read, and the WorkShift returned carries what the filename gives.
C18_UnreadableFile ==
    /\ ParseFileCalled
    /\ prim.inp.read.exc
    /\ prim.inp.file_path = <<117, 112, 108, 111, 97, 100, 115, 47, 67, 95, 50, 48, 50, 53, 48, 53, 48, 50, 95, 48, 56, 53, 54, 95, 75, 95, 75, 117, 100, 114, 122, 121, 99, 107, 105, 95, 49, 55, 48, 48, 53, 49, 56, 48, 57, 53, 55, 54, 48, 48, 48, 50, 46, 68, 68, 68>>
    /\ ~ prim.out.exc
    /\ prim.out.val.driver_name = <<75, 117, 100, 114, 122, 121, 99, 107, 105>>
    /\ prim.out.val.vehicle_id = <<67, 95, 75>>
    /\ prim.out.val.date = <<2025, 5, 2>>

\* the file was read, decoded and converted, and the decoded group holds the
\* field with a value that is no sentinel
DecodedField(group, field) ==
    /\ ParseFileCalled
    /\ ~ CallFailed
    /\ ~ prim.out.exc
    /\ group \in DOMAIN ParseResult(prim.inp.read.val)
    /\ field \in DOMAIN ParseResult(prim.inp.read.val)[group]
    /\ ParseResult(prim.inp.read.val)[group][field] \notin {NA, <<>>}

\* C19, as stated: a driver name decoded in driver_data or card_data and a
\* registration decoded in vehicle_data are the driver and the vehicle of
\* the WorkShift whenever they are present and no sentinel, whatever the
\* filename gives.
C19_DecodedIdentityFirst ==
    /\ DecodedField("driver_data", "driver_name") =>
           prim.out.val.driver_name
               = str_strip(ParseResult(prim.inp.read.val).driver_data.driver_name)
    /\ DecodedField("card_data", "driver_name") =>
           prim.out.val.driver_name
               = str_strip(ParseResult(prim.inp.read.val).card_data.driver_name)
    /\ DecodedField("vehicle_data", "registration") =>
           prim.out.val.vehicle_id
               = str_strip(ParseResult(prim.inp.read.val).vehicle_data.registration)


\* C20, as stated: the callers of _find_section take a tag for missing
\* exactly when it does not occur in the buffer, a tag at offset 0 included:
\* the card group is its 'not found' marker, and the events group its 'no
\* events' marker, exactly when the buffer holds no tag 05 01, no tag 05 03.
C20_MissingIffTagAbsent ==
    (Returned /\ "card_data" \in DOMAIN last.out.val) =>
        /\ (last.out.val.card_data = [error |-> "Nie znaleziono danych karty"])
               <=> ~ contains(last.buf, <<5, 1>>)
        /\ (last.out.val.events = <<[info |-> "Brak zdarzen"]>>)
               <=> ~ contains(last.buf, <<5, 3>>)


\* the start of the record area of the loop that runs on buf, the count
\* declared in the two bytes before it, and how many complete 8-byte
\* records fit between the record area and the end of buf
RecordArea(buf) == _find_section(buf, <<5, 2>>) + 6
DeclaredCount(buf) == At(buf, RecordArea(buf) - 2) * 256 + At(buf, RecordArea(buf) - 1)
RecordsThatFit(buf) == (Len(buf) - RecordArea(buf)) \div 8

\* min(declared count, 1000, complete records that fit)
RecordsDue(buf) == Min2(Min2(DeclaredCount(buf), 1000), RecordsThatFit(buf))

\* while the loop runs it has decoded one dict for each of the first i
\* records, no more than are due, and the last iteration read no byte at an
\* index >= the length of the buffer
RecordLoopWithin ==
    pc[1] = "record_loop" =>
        /\ Len(loc[1].activities) = loc[1].i
        /\ loc[1].offset = RecordArea(raw_data) + 8 * loc[1].i
        /\ loc[1].i <= RecordsDue(raw_data)
        /\ loc[1].reads \subseteq 0..(Len(raw_data) - 1)

\* the list of a loop that ended by itself holds the records that are due,
\* none of them an error entry, and a loop that ended before the declared
\* count and before 1000 stopped at a record that passes the end
RecordLoopResult ==
    prim.fn = "_parse_activities" =>
        LET buf == prim.inp
            n == Len(prim.out.val)
        IN  /\ n = RecordsDue(buf)
            /\ \A i \in 1..n : "error" \notin DOMAIN prim.out.val[i]
            /\ n < Min2(DeclaredCount(buf), 1000)
                   => RecordArea(buf) + 8 * n + 8 > Len(buf)

\* C21: the record loop decodes min(declared count, 1000, complete records
\* that fit before the end of the buffer) records; it stops before a record
\* that would pass the end of the buffer, and no byte at an index >= the
\* length of the buffer is read.
C21_RecordLoopBounded == RecordLoopWithin /\ RecordLoopResult

\* C21, its case: of three declared records two are held, followed by
\* seven bytes; the loop decoded the two and stopped before the third.
C21_StoppedBeforeTheEnd ==
    /\ prim.fn = "_parse_activities"
    /\ DeclaredCount(prim.inp) = 3
    /\ Len(prim.inp) = RecordArea(prim.inp) + 16 + 7
    /\ Len(prim.out.val) = 2


\* C22, as stated: the iteration that decodes a record reads only the 8
\* bytes of that record, none of the next record and none after the last.
C22_RecordFromOwnBytes ==
    (pc[1] = "record_loop" /\ loc[1].i > 0) =>
        loc[1].reads \subseteq (loc[1].offset - 8)..(loc[1].offset - 1)


\* the activity types of the Smart Tacho V2 format
V2ActivityTypes == {"driving", "work", "available", "break", "rest"}

\* an entry of the activities of the Smart Tacho V2 decoder as specified
V2ActivityOk(entry) ==
    /\ "error" \notin DOMAIN entry
    /\ entry.activity_type \in V2ActivityTypes
    /\ entry.start_time # NA
    /\ 0 < entry.duration /\ entry.duration <= 1440

\* C23: every entry of the activities of the Smart Tacho V2 decoder has a
\* type of the five, a start time that is not N/A and a duration in
\* 1..1440; the entries are the first 50 candidates that pass, in their
\* order, none replaced; there are at most 50, and at most 30 from the
\* binary scan.
C23_V2ActivitiesValid ==
    prim.fn = "_parse_v2_activities" =>
        LET out == prim.out.val
        IN  /\ ~ prim.out.exc
            /\ \A i \in 1..Len(out) : V2ActivityOk(out[i])
            /\ out = SelectSeq(Slice(prim.candidates, 0, 50), V2ActivityOk)
            /\ Len(out) <= 50
            /\ prim.marker = 0 => Len(out) <= 30

\* C23, its case: of three ACT: blocks with the codes 00, 07 and 30 and the
\* durations 15, 45 and 600 the first two were dropped and the third kept.
C23_TwoDroppedOneKept ==
    /\ prim.fn = "_parse_v2_activities"
    /\ Len(prim.candidates) = 3
    /\ prim.candidates[1].activity_type = "unknown"
    /\ prim.candidates[2].activity_type = "unknown"
    /\ Len(prim.out.val) = 1
    /\ prim.out.val[1].activity_type = "available"
    /\ prim.out.val[1].duration = 600


\* the longest buffer on which the markers are compared one by one with
\* _parse_activities_by_pattern
MaxMarkerBuffer == 256

\* the starts of the 16-byte-aligned windows that lie fully inside buf and
\* inside its first 5000 bytes, and those of them that hold an activity
AlignedWindows(buf) ==
    { i \in 0..Len(buf) : i % 16 = 0 /\ i + 16 <= Len(buf) /\ i + 16 <= 5000 }
ActivityWindows(buf) ==
    { i \in AlignedWindows(buf) : BinaryBlock(Slice(buf, i, i + 16)) # NoneDict }

\* C24, as stated: the activities come from the first marker, in the order
\* ACT:, ACTIVITY:, ACTV:, A:, that gives a candidate, and from that marker
\* alone; the binary scan runs exactly when no marker gives one, and then
\* every aligned window that lies fully inside the buffer and its first
\* 5000 bytes is examined, so that up to the limit of 30 each window that
\* holds an activity gives an entry.
C24_FirstMarkerElseWindows ==
    prim.fn = "_parse_v2_activities" =>
        LET buf == prim.inp
            out == prim.out.val
        IN  /\ Len(buf) <= MaxMarkerBuffer =>
                   \A k \in 1..Len(activity_patterns) :
                       LET first ==
                               /\ \A j \in 1..(k - 1) :
                                      _parse_activities_by_pattern(buf, activity_patterns[j])
                                          = <<>>
                               /\ _parse_activities_by_pattern(buf, activity_patterns[k])
                                      # <<>>
                       IN  /\ first => prim.candidates
                                  = _parse_activities_by_pattern(buf, activity_patterns[k])
                           /\ first <=> prim.marker = k
            /\ prim.marker = 0 =>
                   Len(out) >= Min2(30, Cardinality(ActivityWindows(buf)))

\* C24, what holds: the same, for the windows the scan examines, which
\* start before min(len - 16, 5000)
C24_WindowsExamined ==
    prim.fn = "_parse_v2_activities" =>
        LET buf == prim.inp
        IN  prim.marker = 0 =>
                Len(prim.out.val)
                    >= Min2(30, Cardinality({ i \in ActivityWindows(buf) :
                                                  i < Min2(Len(buf) - 16, 5000) }))


\* the places of buf where pattern stands
Occurrences(buf, pattern) ==
    { p \in 0..(Len(buf) - Len(pattern)) : Slice(buf, p, p + Len(pattern)) = pattern }

\* what the blocks of the k-th marker of buf decode to: the speed samples
\* of its 20-byte blocks, the events of its 30-byte blocks
SpeedsOfMarker(buf, k) ==
    { SpeedOf(Slice(buf, p, p + 20), Len(speed_patterns[k])) :
          p \in { q \in Occurrences(buf, speed_patterns[k]) : q + 20 < Len(buf) } }
EventsOfMarker(buf, k) ==
    { EventOf(Slice(buf, p, p + 30), event_patterns[k]) :
          p \in { q \in Occurrences(buf, event_patterns[k]) : q + 30 < Len(buf) } }

\* the k-th speed marker, and the k-th event marker, is the first whose
\* scan of buf gives an accepted record
FirstSpeedMarker(buf, k) ==
    /\ \A j \in 1..(k - 1) : SpeedLoop(buf, speed_patterns[j], 0, <<>>) = <<>>
    /\ SpeedLoop(buf, speed_patterns[k], 0, <<>>) # <<>>
FirstEventMarker(buf, k) ==
    /\ \A j \in 1..(k - 1) : EventLoop(buf, event_patterns[j], 0, <<>>) = <<>>
    /\ EventLoop(buf, event_patterns[k], 0, <<>>) # <<>>

\* C25: every speed sample of the Smart Tacho V2 decoder has a timestamp
\* that is not N/A and a speed below 200 km/h; there are at most 100 speed
\* samples and at most 30 events; the entries of each list are decoded from
\* blocks of one marker, the first in the order of the patterns whose scan
\* gives an accepted record.
C25_SpeedsAndEventsOfOneMarker ==
    /\ prim.fn = "_parse_v2_speeds" =>
           LET buf == prim.inp
               out == prim.out.val
           IN  /\ Len(out) <= 100
               /\ \A i \in 1..Len(out) :
                      /\ out[i].timestamp # NA
                      /\ out[i].speed_kmh < 200
                      /\ prim.marker \in 1..Len(speed_patterns)
                      /\ out[i] \in SpeedsOfMarker(buf, prim.marker)
               /\ Len(buf) <= MaxMarkerBuffer =>
                      \A k \in 1..Len(speed_patterns) :
                          /\ FirstSpeedMarker(buf, k) <=> prim.marker = k
                          /\ FirstSpeedMarker(buf, k) =>
                                 out = Slice(SpeedLoop(buf, speed_patterns[k], 0, <<>>),
                                             0, 100)
    /\ prim.fn = "_parse_v2_events" =>
           LET buf == prim.inp
               out == prim.out.val
           IN  /\ Len(out) <= 30
               /\ \A i \in 1..Len(out) :
                      /\ prim.marker \in 1..Len(event_patterns)
                      /\ out[i] \in EventsOfMarker(buf, prim.marker)
               /\ Len(buf) <= MaxMarkerBuffer =>
                      \A k \in 1..Len(event_patterns) :
                          /\ FirstEventMarker(buf, k) <=> prim.marker = k
                          /\ FirstEventMarker(buf, k) =>
                                 out = Slice(EventLoop(buf, event_patterns[k], 0, <<>>),
                                             0, 30)

\* C25, its case: the SPD: sample of 200 km/h was dropped, no SPEED: sample
\* was found, and the sample of the result is the VEL: sample of 80 km/h.
C25_FastSampleDropped ==
    /\ prim.fn = "_parse_v2_speeds"
    /\ prim.marker = 3
    /\ Len(prim.dropped) = 1
    /\ prim.dropped[1].speed_kmh = 200
    /\ Len(prim.out.val) = 1
    /\ prim.out.val[1].speed_kmh = 80


\* the three readings of the first four bytes of data: (a) the big-endian
\* number, (b) the big-endian number plus 946684800, (c) the little-endian
\* number; each with its condition
ReadingA(data) == unpack_I(Slice(data, 0, 4))
ReadingB(data) == U32Add(unpack_I(Slice(data, 0, 4)), Epoch2000)
ReadingC(data) == unpack_I_le(Slice(data, 0, 4))
AcceptsA(data) == U32Less(Epoch2000, ReadingA(data))
AcceptsB(data) == U32Less(ReadingB(data), Int32Max)
AcceptsC(data) == U32Less(Epoch2000, ReadingC(data)) /\ U32Less(ReadingC(data), Int32Max)

\* the local time of the Unix time ts, as the reader prints it
TimeOf(ts) == strftime(fromtimestamp(ts))

\* C26: _parse_v2_timestamp gives the time of reading (a) when (a) is
\* accepted, else that of (b) when (b) is accepted, else that of (c) when
\* (c) is accepted, else N/A.
C26_FirstReadingWins ==
    (prim.fn = "_parse_v2_timestamp" /\ Len(prim.inp) >= 4) =>
        LET data == prim.inp
            out == prim.out
        IN  /\ AcceptsA(data) => out = TimeOf(ReadingA(data))
            /\ (~ AcceptsA(data) /\ AcceptsB(data)) => out = TimeOf(ReadingB(data))
            /\ (~ AcceptsA(data) /\ ~ AcceptsB(data) /\ AcceptsC(data))
                   => out = TimeOf(ReadingC(data))
            /\ (~ AcceptsA(data) /\ ~ AcceptsB(data) /\ ~ AcceptsC(data)) => out = NA

\* C26, its case: for 00 00 00 40 reading (a) is rejected, (b) and (c) are
\* both accepted, and the result is that of (b), 2000-01-01 00:01:04.
C26_SecondBeforeThird ==
    /\ prim.fn = "_parse_v2_timestamp"
    /\ prim.inp = <<0, 0, 0, 64>>
    /\ ~ AcceptsA(prim.inp) /\ AcceptsB(prim.inp) /\ AcceptsC(prim.inp)
    /\ TimeOf(ReadingB(prim.inp)) # TimeOf(ReadingC(prim.inp))
    /\ prim.out = <<50, 48, 48, 48, 45, 48, 49, 45, 48, 49, 32, 48, 48, 58, 48, 49, 58, 48, 52>>


\* C27: for at least four bytes _parse_v2_timestamp never gives N/A: when
\* reading (a) is rejected the big-endian number is at most 946684800, so
\* reading (b) is accepted and gives the result, and reading (c) is never
\* reached; four zero bytes give 2000-01-01 00:00:00; and the checks of the
\* timestamp against N/A drop no event, no speed sample and no window of
\* the binary scan.
C27_TimestampNeverMissing ==
    /\ (prim.fn = "_parse_v2_timestamp" /\ Len(prim.inp) >= 4) =>
           LET data == prim.inp
           IN  /\ prim.out # NA
               /\ ~ AcceptsA(data) =>
                      /\ ReadingA(data) = Epoch2000 \/ U32Less(ReadingA(data), Epoch2000)
                      /\ AcceptsB(data)
                      /\ prim.out = TimeOf(ReadingB(data))
               /\ AcceptsA(data) \/ AcceptsB(data)
               /\ Slice(data, 0, 4) = <<0, 0, 0, 0>> =>
                      prim.out = <<50, 48, 48, 48, 45, 48, 49, 45, 48, 49, 32,
                                   48, 48, 58, 48, 48, 58, 48, 48>>
    /\ pc[1] = "v2_events" => loc[1].dropped = <<>>
    /\ prim.fn = "_parse_v2_events" => prim.dropped = <<>>
    /\ pc[1] = "v2_speeds" =>
           \A i \in 1..Len(loc[1].dropped) : loc[1].dropped[i].timestamp # NA
    /\ prim.fn = "_parse_v2_speeds" =>
           \A i \in 1..Len(prim.dropped) : prim.dropped[i].timestamp # NA
    /\ (pc[1] = "v2_windows" /\ loc[1].i < loc[1].stop) =>
           LET block == Slice(raw_data, loc[1].i, loc[1].i + 16)
           IN  \A k \in 1..Len(layouts) :
                   layouts[k][2] + 4 <= Len(block) =>
                       _parse_v2_timestamp(
                           Slice(block, layouts[k][2], layouts[k][2] + 4)) # NA

\* C27, its case: 38 6d 43 80 is 946684800 itself: reading (a) is rejected,
\* reading (c) too, and the result is that of (b), 2029-12-31 00:00:00.
C27_EpochItselfIsRead ==
    /\ prim.fn = "_parse_v2_timestamp"
    /\ prim.inp = <<56, 109, 67, 128>>
    /\ ~ AcceptsA(prim.inp) /\ ~ AcceptsC(prim.inp)
    /\ prim.out = <<50, 48, 50, 57, 45, 49, 50, 45, 51, 49, 32, 48, 48, 58, 48, 48, 58, 48, 48>>


\* C28, as stated: at most one thread of process_files_background is alive
\* at any time.
C28_OneRunAtATime == Cardinality(Alive) <= 1


C30_ProcessedWithinTotal ==
    /\ 0 <= processing_status.processed_files
    /\ processing_status.processed_files <= processing_status.total_files
    /\ processing_status.output_file # "None" =>
           processing_status.processed_files = processing_status.total_files

\* C30, what holds: the same and the count of the thread, file by file,
\* while no two threads are alive together
C30_OneRunCounts ==
    /\ C30_ProcessedWithinTotal
    /\ \A r \in Alive :
           runs[r].at \notin {"begin"} =>
               /\ processing_status.total_files = Len(runs[r].file_paths)
               /\ processing_status.processed_files = runs[r].index - 1
               /\ runs[r].at \in {"report", "finally", "cleanup"} =>
                      processing_status.processed_files = processing_status.total_files

====
